---- MODULE Spec2Model ----
(***************************************************************************)
(* The MCP tool-dispatch server of CalorieCoach                            *)
(* (src/mcp_server/mcp_server.py): the four registered handlers, the four  *)
(* tool handlers behind handle_call_tool, the JSON conversions they apply  *)
(* to the backend's body, and the server's lifecycle.                      *)
(*                                                                         *)
(* Texts are TLA+ strings; TLC evaluates \o, Len, SubSeq on them, so a     *)
(* prefix such as "Error: " is compared character by character.            *)
(***************************************************************************)
EXTENDS Integers, Sequences, FiniteSets, TLC

(***************************************************************************)
(* Bounds of the model.                                                    *)
(***************************************************************************)
\* longest list / object drawn for a backend JSON body
MaxItems == 2
\* ListTools / ListResources calls counted per session (the count saturates)
MaxListCalls == 2

(***************************************************************************)
(* Python values as json.loads builds them and json.dumps reads them.      *)
(* One record shape for every value, so that any two values compare:       *)
(*   t  the type, n the integer (1/0 for a bool), s the string,            *)
(*   ks the keys of a dict in insertion order, c the items / the values.   *)
(* Floats are outside the modelled domain.                                 *)
(***************************************************************************)
JNull == [t |-> "null", n |-> 0, s |-> "", ks |-> <<>>, c |-> <<>>]
JBool(b) == [t |-> "bool", n |-> IF b THEN 1 ELSE 0, s |-> "", ks |-> <<>>, c |-> <<>>]
JInt(i) == [t |-> "int", n |-> i, s |-> "", ks |-> <<>>, c |-> <<>>]
JStr(x) == [t |-> "str", n |-> 0, s |-> x, ks |-> <<>>, c |-> <<>>]
JList(items) == [t |-> "list", n |-> 0, s |-> "", ks |-> <<>>, c |-> items]
JDict(keys, vals) == [t |-> "dict", n |-> 0, s |-> "", ks |-> keys, c |-> vals]

\* the character of s at position i, "" past the end
Ch(s, i) == IF i >= 1 /\ i <= Len(s) THEN SubSeq(s, i, i) ELSE ""

\* s carries lit at position i
StartsAt(s, i, lit) ==
    /\ i + Len(lit) - 1 <= Len(s)
    /\ SubSeq(s, i, i + Len(lit) - 1) = lit

\* str.startswith
StartsWith(s, lit) == StartsAt(s, 1, lit)

\* sub in s
Contains(s, sub) == \E i \in 1..(Len(s) + 1) : StartsAt(s, i, sub)

Digits == <<"0", "1", "2", "3", "4", "5", "6", "7", "8", "9">>

IsDigit(ch) == \E d \in 1..10 : Digits[d] = ch

DigitVal(ch) == (CHOOSE d \in 1..10 : Digits[d] = ch) - 1

RECURSIVE NatToStr(_)
NatToStr(k) == IF k < 10 THEN Digits[k + 1] ELSE NatToStr(k \div 10) \o Digits[(k % 10) + 1]

\* str(int)
IntToStr(i) == IF i < 0 THEN "-" \o NatToStr(0 - i) ELSE NatToStr(i)

(***************************************************************************)
(* json.dumps: the encoder, with its two separators as parameters.  The    *)
(* server calls json.dumps(result) with Python's defaults ", " and ": ";   *)
(* a backend is free to send the compact form.                             *)
(***************************************************************************)
RECURSIVE EscapeFrom(_, _)
EscapeFrom(s, i) ==
    IF i > Len(s) THEN ""
    ELSE LET ch == Ch(s, i)
         IN (IF ch = "\"" THEN "\\\""
             ELSE IF ch = "\\" THEN "\\\\"
             ELSE ch) \o EscapeFrom(s, i + 1)

\* the body of a JSON string literal: quote and backslash are escaped
py_encode_basestring(s) == "\"" \o EscapeFrom(s, 1) \o "\""

RECURSIVE json_encode(_, _, _)
RECURSIVE EncodeItems(_, _, _, _)
RECURSIVE EncodeMembers(_, _, _, _, _)

EncodeItems(items, i, isep, ksep) ==
    IF i > Len(items) THEN ""
    ELSE (IF i > 1 THEN isep ELSE "")
         \o json_encode(items[i], isep, ksep)
         \o EncodeItems(items, i + 1, isep, ksep)

EncodeMembers(keys, vals, i, isep, ksep) ==
    IF i > Len(keys) THEN ""
    ELSE (IF i > 1 THEN isep ELSE "")
         \o py_encode_basestring(keys[i]) \o ksep
         \o json_encode(vals[i], isep, ksep)
         \o EncodeMembers(keys, vals, i + 1, isep, ksep)

json_encode(v, isep, ksep) ==
    CASE v.t = "null" -> "null"
      [] v.t = "bool" -> (IF v.n = 1 THEN "true" ELSE "false")
      [] v.t = "int" -> IntToStr(v.n)
      [] v.t = "str" -> py_encode_basestring(v.s)
      [] v.t = "list" -> "[" \o EncodeItems(v.c, 1, isep, ksep) \o "]"
      [] v.t = "dict" -> "{" \o EncodeMembers(v.ks, v.c, 1, isep, ksep) \o "}"

\* json.dumps(obj) with the default separators
json_dumps(v) == json_encode(v, ", ", ": ")

\* the compact wire form a backend may send: separators "," and ":"
CompactBody(v) == json_encode(v, ",", ":")

(***************************************************************************)
(* json.loads / response.json(): the decoder, as a machine with the stack  *)
(* of the containers still open.  Its state is [mode, i, v, stack]:        *)
(*   mode "value": a value is expected at position i;                      *)
(*   mode "key":   an object key is expected at position i;                *)
(*   mode "after": the value v ended just before position i;               *)
(*   mode "ok" / "fail": the parse is over.                                *)
(* An open list is a JList of the items read so far; an open object is a   *)
(* JDict of the members read so far whose field s holds the pending key.   *)
(***************************************************************************)
ParseOk(v, i) == [ok |-> TRUE, v |-> v, i |-> i]
ParseFail == [ok |-> FALSE, v |-> JNull, i |-> 0]

Scan(mode, i, v, stack) == [mode |-> mode, i |-> i, v |-> v, stack |-> stack]
ScanFail == Scan("fail", 0, JNull, <<>>)

\* JSON whitespace: blank, line feed, carriage return, tab
RECURSIVE SkipWs(_, _)
SkipWs(s, i) == IF Ch(s, i) \in {" ", "\n", "\r", "\t"} THEN SkipWs(s, i + 1) ELSE i

\* a string literal, from just after its opening quote
RECURSIVE ParseString(_, _, _)
ParseString(s, i, acc) ==
    IF Ch(s, i) = "" THEN ParseFail
    ELSE IF Ch(s, i) = "\"" THEN ParseOk(JStr(acc), i + 1)
    ELSE IF Ch(s, i) = "\\"
         THEN IF Ch(s, i + 1) \in {"\"", "\\", "/"}
              THEN ParseString(s, i + 2, acc \o Ch(s, i + 1))
              ELSE ParseFail
    ELSE ParseString(s, i + 1, acc \o Ch(s, i))

RECURSIVE ParseDigits(_, _, _)
ParseDigits(s, i, acc) ==
    IF IsDigit(Ch(s, i)) THEN ParseDigits(s, i + 1, acc * 10 + DigitVal(Ch(s, i)))
    ELSE [n |-> acc, i |-> i]

\* -?(0|[1-9][0-9]*)
ParseNumber(s, i) ==
    LET neg == Ch(s, i) = "-"
        j == IF neg THEN i + 1 ELSE i
    IN IF ~IsDigit(Ch(s, j)) THEN ParseFail
       ELSE IF Ch(s, j) = "0" THEN ParseOk(JInt(0), j + 1)
       ELSE LET d == ParseDigits(s, j, 0)
            IN ParseOk(JInt(IF neg THEN 0 - d.n ELSE d.n), d.i)

\* dict[k] = v: a repeated key keeps its place and takes the later value
RECURSIVE DictSet(_, _, _, _, _)
DictSet(keys, vals, k, v, i) ==
    IF i > Len(keys) THEN JDict(Append(keys, k), Append(vals, v))
    ELSE IF keys[i] = k THEN JDict(keys, [vals EXCEPT ![i] = v])
    ELSE DictSet(keys, vals, k, v, i + 1)

\* a scalar ended: go on after it, or fail
AfterScalar(r, stack) == IF r.ok THEN Scan("after", r.i, r.v, stack) ELSE ScanFail

\* mode "value"
ScanValue(s, i, stack) ==
    CASE Ch(s, i) = "\"" -> AfterScalar(ParseString(s, i + 1, ""), stack)
      [] Ch(s, i) = "[" ->
             (IF Ch(s, SkipWs(s, i + 1)) = "]"
              THEN Scan("after", SkipWs(s, i + 1) + 1, JList(<<>>), stack)
              ELSE Scan("value", SkipWs(s, i + 1), JNull, Append(stack, JList(<<>>))))
      [] Ch(s, i) = "{" ->
             (IF Ch(s, SkipWs(s, i + 1)) = "}"
              THEN Scan("after", SkipWs(s, i + 1) + 1, JDict(<<>>, <<>>), stack)
              ELSE Scan("key", SkipWs(s, i + 1), JNull, Append(stack, JDict(<<>>, <<>>))))
      [] Ch(s, i) = "n" ->
             (IF StartsAt(s, i, "null") THEN Scan("after", i + 4, JNull, stack) ELSE ScanFail)
      [] Ch(s, i) = "t" ->
             (IF StartsAt(s, i, "true") THEN Scan("after", i + 4, JBool(TRUE), stack)
              ELSE ScanFail)
      [] Ch(s, i) = "f" ->
             (IF StartsAt(s, i, "false") THEN Scan("after", i + 5, JBool(FALSE), stack)
              ELSE ScanFail)
      [] Ch(s, i) = "-" \/ IsDigit(Ch(s, i)) -> AfterScalar(ParseNumber(s, i), stack)
      [] OTHER -> ScanFail

\* the key k ended: a colon, then the member's value
AfterKey(s, k, stack) ==
    IF ~k.ok \/ Ch(s, SkipWs(s, k.i)) # ":" THEN ScanFail
    ELSE Scan("value", SkipWs(s, SkipWs(s, k.i) + 1), JNull,
              [stack EXCEPT ![Len(stack)].s = k.v.s])

\* mode "key"
ScanKey(s, i, stack) ==
    IF Ch(s, i) # "\"" THEN ScanFail
    ELSE AfterKey(s, ParseString(s, i + 1, ""), stack)

\* the container open, now holding one value more, meets the character at m
AfterItem(s, m, open, below) ==
    IF Ch(s, m) = ","
    THEN Scan(IF open.t = "list" THEN "value" ELSE "key", SkipWs(s, m + 1), JNull,
              Append(below, open))
    ELSE IF Ch(s, m) = (IF open.t = "list" THEN "]" ELSE "}")
    THEN Scan("after", m + 1, [open EXCEPT !.s = ""], below)
    ELSE ScanFail

\* mode "after"
ScanAfter(s, i, v, stack) ==
    IF stack = <<>> THEN Scan("ok", i, v, stack)
    ELSE AfterItem(s, SkipWs(s, i),
                   IF stack[Len(stack)].t = "list"
                   THEN JList(Append(stack[Len(stack)].c, v))
                   ELSE [DictSet(stack[Len(stack)].ks, stack[Len(stack)].c,
                                 stack[Len(stack)].s, v, 1)
                         EXCEPT !.s = stack[Len(stack)].s],
                   SubSeq(stack, 1, Len(stack) - 1))

RECURSIVE ParseValue(_, _)
ParseValue(s, st) ==
    CASE st.mode = "value" -> ParseValue(s, ScanValue(s, st.i, st.stack))
      [] st.mode = "key" -> ParseValue(s, ScanKey(s, st.i, st.stack))
      [] st.mode = "after" -> ParseValue(s, ScanAfter(s, st.i, st.v, st.stack))
      [] st.mode = "ok" -> ParseOk(st.v, st.i)
      [] OTHER -> ParseFail

\* the whole text is one value with blanks around it
WholeText(s, r) == IF r.ok /\ SkipWs(s, r.i) = Len(s) + 1 THEN r ELSE ParseFail

\* json.loads(s)
json_loads(s) == WholeText(s, ParseValue(s, Scan("value", SkipWs(s, 1), JNull, <<>>)))

(***************************************************************************)
(* The state of one server process and its session.                        *)
(***************************************************************************)
VARIABLES
    phase,           \* "Uninitialized", "Ready", "Serving" or "Closed"
    handlers,        \* the handlers registered with self.server
    cur,             \* the request read last: [op, name, args, uri, done]
    outcome,         \* what the backend did with cur's upstream call
    result,          \* what handle_call_tool answered for cur
    resource,        \* what handle_read_resource answered for cur
    toolsSeen,       \* every list handle_list_tools has returned
    resourcesSeen,   \* every list handle_list_resources has returned
    listCalls,       \* ListTools requests answered (saturates at MaxListCalls)
    failedSinceList, \* a call failed after the first ListTools answer
    prev,            \* the call answered before cur: [set, req, outcome, result]
    backend,         \* the backend's last exchange: [set, req, env, resp, usda, loadCalls]
    summary,         \* a call of a client helper: [set, fn, label, sessionOk, detail, value]
    loader,          \* the backend's classifier cache and the requests using it
    chat             \* one run of an LLM tool loop

vars == <<phase, handlers, cur, outcome, result, resource,
          toolsSeen, resourcesSeen, listCalls, failedSinceList,
          prev, backend, summary, loader, chat>>

BACKEND_URL == "http://localhost:8004"

(***************************************************************************)
(* Python values seen by the handlers.                                     *)
(***************************************************************************)
\* type(v).__name__
PyTypeName(v) ==
    CASE v.t = "null" -> "NoneType"
      [] v.t = "bool" -> "bool"
      [] v.t = "int" -> "int"
      [] v.t = "str" -> "str"
      [] v.t = "list" -> "list"
      [] v.t = "dict" -> "dict"

RECURSIVE PyRepr(_)
RECURSIVE PyReprItems(_, _)
RECURSIVE PyReprMembers(_, _, _)

PyReprItems(items, i) ==
    IF i > Len(items) THEN ""
    ELSE (IF i > 1 THEN ", " ELSE "") \o PyRepr(items[i]) \o PyReprItems(items, i + 1)

PyReprMembers(keys, vals, i) ==
    IF i > Len(keys) THEN ""
    ELSE (IF i > 1 THEN ", " ELSE "")
         \o "'" \o keys[i] \o "': " \o PyRepr(vals[i])
         \o PyReprMembers(keys, vals, i + 1)

\* repr(v); the strings of the model hold no quote that repr would escape
PyRepr(v) ==
    CASE v.t = "null" -> "None"
      [] v.t = "bool" -> (IF v.n = 1 THEN "True" ELSE "False")
      [] v.t = "int" -> IntToStr(v.n)
      [] v.t = "str" -> "'" \o v.s \o "'"
      [] v.t = "list" -> "[" \o PyReprItems(v.c, 1) \o "]"
      [] v.t = "dict" -> "{" \o PyReprMembers(v.ks, v.c, 1) \o "}"

\* str(v), also what an f-string field formats
PyStr(v) == IF v.t = "str" THEN v.s ELSE PyRepr(v)

\* iter(v) succeeds on str, list and dict
PyIterable(v) == v.t \in {"str", "list", "dict"}

\* the items iter(v) yields: a list's items, a str's characters, a dict's keys
PyIter(v) ==
    CASE v.t = "list" -> v.c
      [] v.t = "str" -> [i \in 1..Len(v.s) |-> JStr(Ch(v.s, i))]
      [] v.t = "dict" -> [i \in 1..Len(v.ks) |-> JStr(v.ks[i])]
      [] OTHER -> <<>>

\* ",".join(map(str, items))
RECURSIVE JoinStr(_, _)
JoinStr(items, i) ==
    IF i > Len(items) THEN ""
    ELSE (IF i > 1 THEN "," ELSE "") \o PyStr(items[i]) \o JoinStr(items, i + 1)

\* arguments: a dict from keys to Python values
EmptyArgs == [k \in {} |-> JNull]
HasKey(args, k) == k \in DOMAIN args
\* args.get(k, default)
ArgGet(args, k, default) == IF HasKey(args, k) THEN args[k] ELSE default

(***************************************************************************)
(* Exceptions, content blocks and what a handler hands back.               *)
(***************************************************************************)
Exc(type, msg) == [type |-> type, msg |-> msg]
NoExc == Exc("", "")

TextContent(text) == [type |-> "text", text |-> text]

\* one call of self.client.get / self.client.post
HttpRequest(method, url, params, file) ==
    [method |-> method, url |-> url, params |-> params, file |-> file]

\* a handler returned content; calls are the upstream calls it made
Returned(content, calls) ==
    [raised |-> FALSE, exc |-> NoExc, content |-> content, calls |-> calls]
\* a handler let an exception out
Raised(e, calls) ==
    [raised |-> TRUE, exc |-> e, content |-> <<>>, calls |-> calls]

NoResult == Returned(<<>>, <<>>)

(***************************************************************************)
(* The backend as the HTTP client sees it.                                 *)
(***************************************************************************)
\* a response whose body is the JSON text of the value json
JsonResponse(status, body, json) ==
    [kind |-> "response", status |-> status, body |-> body, isJson |-> TRUE, json |-> json]
\* a response whose body is no JSON text
RawResponse(status, body) ==
    [kind |-> "response", status |-> status, body |-> body, isJson |-> FALSE, json |-> JNull]
ConnectError == [kind |-> "connect_error", status |-> 0, body |-> "", isJson |-> FALSE, json |-> JNull]
ReadTimeout == [kind |-> "timeout", status |-> 0, body |-> "", isJson |-> FALSE, json |-> JNull]
NoOutcome == [kind |-> "none", status |-> 0, body |-> "", isJson |-> FALSE, json |-> JNull]

is_success(status) == status >= 200 /\ status <= 299

\* what awaiting the client raises when no response arrives; str() of a
\* timeout is empty
TransportError(o) ==
    IF o.kind = "connect_error"
    THEN Exc("ConnectError", "All connection attempts failed")
    ELSE Exc("ReadTimeout", "")

\* raise_for_status() raising on 4xx and 5xx only
raise_for_status_4xx5xx(o, url) ==
    IF o.status < 400 THEN NoExc
    ELSE Exc("HTTPStatusError",
             (IF o.status < 500 THEN "Client error" ELSE "Server error")
             \o " '" \o IntToStr(o.status) \o "' for url '" \o url \o "'")

\* response.raise_for_status(): NoExc on 2xx, HTTPStatusError otherwise
raise_for_status(o, url) ==
    IF is_success(o.status) THEN NoExc
    ELSE Exc("HTTPStatusError",
             (CASE o.status < 200 -> "Informational response"
                [] o.status < 400 -> "Redirect response"
                [] o.status < 500 -> "Client error"
                [] OTHER -> "Server error")
             \o " '" \o IntToStr(o.status) \o "' for url '" \o url \o "'")

\* the files open(path, "rb") can read on the server's filesystem
ReadablePaths == {"/img/pizza.jpg"}

\* open(image_path, "rb"): NoExc when it opens.  Integer paths (file
\* descriptors) are outside the modelled domain.
open(image_path) ==
    IF image_path.t # "str"
    THEN Exc("TypeError", "expected str, bytes or os.PathLike object, not "
                          \o PyTypeName(image_path))
    ELSE IF image_path.s \in ReadablePaths THEN NoExc
    ELSE Exc("FileNotFoundError",
             "[Errno 2] No such file or directory: '" \o image_path.s \o "'")

(***************************************************************************)
(* The tool handlers.                                                      *)
(***************************************************************************)
\* the tail with text=str(result) in place of json.dumps(result)
Upstream_str(req, o) ==
    IF o.kind # "response" THEN Raised(TransportError(o), <<req>>)
    ELSE IF raise_for_status(o, req.url) # NoExc
         THEN Raised(raise_for_status(o, req.url), <<req>>)
    ELSE LET parsed == json_loads(o.body)
         IN IF ~parsed.ok
            THEN Raised(Exc("JSONDecodeError", "Expecting value: line 1 column 1 (char 0)"),
                        <<req>>)
            ELSE Returned(<<TextContent(PyStr(parsed.v))>>, <<req>>)

\* the tail returning one block per item of a list result
Upstream_perItem(req, o) ==
    IF o.kind # "response" THEN Raised(TransportError(o), <<req>>)
    ELSE IF raise_for_status(o, req.url) # NoExc
         THEN Raised(raise_for_status(o, req.url), <<req>>)
    ELSE LET parsed == json_loads(o.body)
         IN IF ~parsed.ok
            THEN Raised(Exc("JSONDecodeError", "Expecting value: line 1 column 1 (char 0)"),
                        <<req>>)
            ELSE IF parsed.v.t = "list"
            THEN Returned([i \in 1..Len(parsed.v.c) |-> TextContent(json_dumps(parsed.v.c[i]))],
                          <<req>>)
            ELSE Returned(<<TextContent(json_dumps(parsed.v))>>, <<req>>)

\* the tail asking the backend a second time when no response arrived
Upstream_retry(req, o) ==
    IF o.kind # "response" THEN Raised(TransportError(o), <<req, req>>)
    ELSE IF raise_for_status(o, req.url) # NoExc
         THEN Raised(raise_for_status(o, req.url), <<req>>)
    ELSE LET parsed == json_loads(o.body)
         IN IF ~parsed.ok
            THEN Raised(Exc("JSONDecodeError", "Expecting value: line 1 column 1 (char 0)"),
                        <<req>>)
            ELSE Returned(<<TextContent(json_dumps(parsed.v))>>, <<req>>)

\* the tail answering from the last answer when the last call sent the same
\* request and succeeded
Upstream_cached(req, o) ==
    IF /\ prev.set
       /\ prev.result.calls = <<req>>
       /\ Len(prev.result.content) = 1
       /\ ~StartsWith(prev.result.content[1].text, "Error: ")
    THEN Returned(prev.result.content, <<>>)
    ELSE IF o.kind # "response" THEN Raised(TransportError(o), <<req>>)
    ELSE IF raise_for_status(o, req.url) # NoExc
         THEN Raised(raise_for_status(o, req.url), <<req>>)
    ELSE LET parsed == json_loads(o.body)
         IN IF ~parsed.ok
            THEN Raised(Exc("JSONDecodeError", "Expecting value: line 1 column 1 (char 0)"),
                        <<req>>)
            ELSE Returned(<<TextContent(json_dumps(parsed.v))>>, <<req>>)

\* the tail of a handler whose client was closed by the failure of the
\* call before
Upstream_closed(req, o) ==
    IF /\ prev.set
       /\ Len(prev.result.content) = 1
       /\ StartsWith(prev.result.content[1].text, "Error: ")
    THEN Raised(Exc("RuntimeError", "Cannot send a request, as the client has been closed."),
                <<>>)
    ELSE IF o.kind # "response" THEN Raised(TransportError(o), <<req>>)
    ELSE IF raise_for_status(o, req.url) # NoExc
         THEN Raised(raise_for_status(o, req.url), <<req>>)
    ELSE LET parsed == json_loads(o.body)
         IN IF ~parsed.ok
            THEN Raised(Exc("JSONDecodeError", "Expecting value: line 1 column 1 (char 0)"),
                        <<req>>)
            ELSE Returned(<<TextContent(json_dumps(parsed.v))>>, <<req>>)

\* the tail with a body that is a JSON string handed on as its characters
Upstream_unquoted(req, o) ==
    IF o.kind # "response" THEN Raised(TransportError(o), <<req>>)
    ELSE IF raise_for_status(o, req.url) # NoExc
         THEN Raised(raise_for_status(o, req.url), <<req>>)
    ELSE LET parsed == json_loads(o.body)
         IN IF ~parsed.ok
            THEN Raised(Exc("JSONDecodeError", "Expecting value: line 1 column 1 (char 0)"),
                        <<req>>)
            ELSE Returned(<<TextContent(PyStr(parsed.v))>>, <<req>>)

\* the tail the four handlers share: await the client, raise_for_status(),
\* response.json(), json.dumps(), one TextContent
Upstream(req, o) ==
    IF o.kind # "response" THEN Raised(TransportError(o), <<req>>)
    ELSE IF raise_for_status(o, req.url) # NoExc
         THEN Raised(raise_for_status(o, req.url), <<req>>)
    ELSE LET parsed == json_loads(o.body)
         IN IF ~parsed.ok
            THEN Raised(Exc("JSONDecodeError", "Expecting value: line 1 column 1 (char 0)"),
                        <<req>>)
            ELSE Returned(<<TextContent(json_dumps(parsed.v))>>, <<req>>)

\* the paging keys of the arguments forwarded along with the query
_search_foods_paged(args, o) ==
    IF ~HasKey(args, "query") THEN Raised(Exc("KeyError", "'query'"), <<>>)
    ELSE Upstream(HttpRequest("GET", BACKEND_URL \o "/api/search",
                              <<<<"food_name", args["query"]>>>>
                              \o (IF HasKey(args, "pageSize")
                                  THEN <<<<"pageSize", args["pageSize"]>>>> ELSE <<>>), ""), o)

\* args.get("query") in place of args["query"]
_search_foods_get(args, o) ==
    Upstream(HttpRequest("GET", BACKEND_URL \o "/api/search",
                         <<<<"food_name", ArgGet(args, "query", JNull)>>>>, ""), o)

_search_foods(args, o) ==
    IF ~HasKey(args, "query") THEN Raised(Exc("KeyError", "'query'"), <<>>)
    ELSE Upstream(HttpRequest("GET", BACKEND_URL \o "/api/search",
                              <<<<"food_name", args["query"]>>>>, ""), o)

_get_food_details(args, o) ==
    IF ~HasKey(args, "fdc_id") THEN Raised(Exc("KeyError", "'fdc_id'"), <<>>)
    ELSE Upstream(HttpRequest("GET", BACKEND_URL \o "/api/food/" \o PyStr(args["fdc_id"]),
                              <<<<"format", ArgGet(args, "format", JStr("full"))>>>>, ""), o)

\* the ids joined last to first
_get_multiple_foods_reversed(args, o) ==
    IF ~HasKey(args, "fdc_ids") THEN Raised(Exc("KeyError", "'fdc_ids'"), <<>>)
    ELSE IF ~PyIterable(args["fdc_ids"])
         THEN Raised(Exc("TypeError", "'" \o PyTypeName(args["fdc_ids"])
                                      \o "' object is not iterable"), <<>>)
    ELSE LET ids == PyIter(args["fdc_ids"])
         IN Upstream(HttpRequest("GET", BACKEND_URL \o "/api/foods",
                << <<"fdcIds", JStr(JoinStr([i \in 1..Len(ids) |-> ids[Len(ids) + 1 - i]], 1))>>,
                   <<"format", ArgGet(args, "format", JStr("full"))>> >>, ""), o)

_get_multiple_foods(args, o) ==
    IF ~HasKey(args, "fdc_ids") THEN Raised(Exc("KeyError", "'fdc_ids'"), <<>>)
    ELSE IF ~PyIterable(args["fdc_ids"])
         THEN Raised(Exc("TypeError", "'" \o PyTypeName(args["fdc_ids"])
                                      \o "' object is not iterable"), <<>>)
    ELSE Upstream(HttpRequest("GET", BACKEND_URL \o "/api/foods",
                              << <<"fdcIds", JStr(JoinStr(PyIter(args["fdc_ids"]), 1))>>,
                                 <<"format", ArgGet(args, "format", JStr("full"))>> >>, ""), o)

\* the path sent as it is, the file never opened
_classify_noopen(args, o) ==
    IF ~HasKey(args, "image_path") THEN Raised(Exc("KeyError", "'image_path'"), <<>>)
    ELSE Upstream(HttpRequest("POST", BACKEND_URL \o "/api/classify",
                              <<>>, PyStr(args["image_path"])), o)

_classify(args, o) ==
    IF ~HasKey(args, "image_path") THEN Raised(Exc("KeyError", "'image_path'"), <<>>)
    ELSE IF open(args["image_path"]) # NoExc THEN Raised(open(args["image_path"]), <<>>)
    ELSE Upstream(HttpRequest("POST", BACKEND_URL \o "/api/classify",
                              <<>>, args["image_path"].s), o)

\* the chain with a last branch that searches instead of raising
Dispatch_fallthrough(name, args, o) ==
    CASE name = "get_food_details" -> _get_food_details(args, o)
      [] name = "get_multiple_foods" -> _get_multiple_foods(args, o)
      [] name = "classify" -> _classify(args, o)
      [] OTHER -> _search_foods(args, o)

\* the chain with classify routed to the search handler
Dispatch_shared(name, args, o) ==
    CASE name = "search_foods" -> _search_foods(args, o)
      [] name = "get_food_details" -> _get_food_details(args, o)
      [] name = "get_multiple_foods" -> _get_multiple_foods(args, o)
      [] name = "classify" -> _search_foods(args, o)
      [] OTHER -> Raised(Exc("ValueError", "Unknown tool: " \o name), <<>>)

\* the if/elif chain of handle_call_tool, before its except clause
Dispatch(name, args, o) ==
    CASE name = "search_foods" -> _search_foods(args, o)
      [] name = "get_food_details" -> _get_food_details(args, o)
      [] name = "get_multiple_foods" -> _get_multiple_foods(args, o)
      [] name = "classify" -> _classify(args, o)
      [] OTHER -> Raised(Exc("ValueError", "Unknown tool: " \o name), <<>>)

\* except httpx.HTTPError in place of except Exception
handle_call_tool_httponly(name, args, o) ==
    LET r == Dispatch(name, args, o)
    IN IF r.raised /\ r.exc.type \in {"ConnectError", "ReadTimeout", "HTTPStatusError"}
       THEN Returned(<<TextContent("Error: " \o r.exc.msg)>>, r.calls)
       ELSE r

\* try: ... except Exception as e: one TextContent "Error: <str(e)>"
handle_call_tool(name, args, o) ==
    LET r == Dispatch(name, args, o)
    IN IF r.raised
       THEN Returned(<<TextContent("Error: " \o r.exc.msg)>>, r.calls)
       ELSE r

(***************************************************************************)
(* The registry and the resources.                                         *)
(***************************************************************************)
Tool(name, properties, required) ==
    [name |-> name,
     inputSchema |-> [type |-> "object", properties |-> properties, required |-> required]]

\* a registry that drops classify once a call has failed
handle_list_tools_shrinks ==
    IF failedSinceList
    THEN << Tool("search_foods", <<[name |-> "query", type |-> "string"]>>, <<"query">>) >>
    ELSE << Tool("search_foods", <<[name |-> "query", type |-> "string"]>>, <<"query">>),
            Tool("classify", <<[name |-> "image_path", type |-> "string"]>>, <<"image_path">>) >>

handle_list_tools ==
    << Tool("search_foods", <<[name |-> "query", type |-> "string"]>>, <<"query">>),
       Tool("classify", <<[name |-> "image_path", type |-> "string"]>>, <<"image_path">>) >>

Resource(uri, name, mimeType) == [uri |-> uri, name |-> name, mimeType |-> mimeType]

\* a third entry listed that handle_read_resource does not know
handle_list_resources_extra ==
    << Resource("food://search", "Food Search", "application/json"),
       Resource("food://details", "Food Details", "application/json"),
       Resource("food://unknown", "Food Nutrients", "application/json") >>

handle_list_resources ==
    << Resource("food://search", "Food Search", "application/json"),
       Resource("food://details", "Food Details", "application/json") >>

\* an unknown URI answered with an empty string
handle_read_resource_default(uri) ==
    IF uri = "food://search"
    THEN [raised |-> FALSE, exc |-> NoExc,
          value |-> "Use the search_foods tool to search for foods"]
    ELSE IF uri = "food://details"
    THEN [raised |-> FALSE, exc |-> NoExc,
          value |-> "Use the get_food_details tool to get food information"]
    ELSE [raised |-> FALSE, exc |-> NoExc, value |-> ""]

\* [raised, exc, value]: the string returned, or the ValueError raised
handle_read_resource(uri) ==
    IF uri = "food://search"
    THEN [raised |-> FALSE, exc |-> NoExc,
          value |-> "Use the search_foods tool to search for foods"]
    ELSE IF uri = "food://details"
    THEN [raised |-> FALSE, exc |-> NoExc,
          value |-> "Use the get_food_details tool to get food information"]
    ELSE [raised |-> TRUE, exc |-> Exc("ValueError", "Unknown resource: " \o uri),
          value |-> ""]

NoResource == [raised |-> FALSE, exc |-> NoExc, value |-> ""]

\* the names ListTools advertises
Registry == {handle_list_tools[i].name : i \in 1..Len(handle_list_tools)}

\* the names the if/elif chain routes to a handler
Dispatched == {"search_foods", "get_food_details", "get_multiple_foods", "classify"}

(***************************************************************************)
(* The requests a client sends and the answers a backend gives.            *)
(***************************************************************************)
BoundedSeq(S, k) == UNION {[1..n -> S] : n \in 0..k}

ToolNames == Dispatched \cup {"bogus", "Search_Foods"}

ArgsDomain ==
    { EmptyArgs,
      "query" :> JStr("apple"),
      "query" :> JStr(""),
      ("query" :> JStr("apple")) @@ ("pageSize" :> JInt(5)) @@ ("pageNumber" :> JInt(1)),
      "query" :> JInt(5),
      "fdc_id" :> JInt(2344719),
      ("fdc_id" :> JInt(2344719)) @@ ("format" :> JStr("abridged")),
      "fdc_id" :> JStr("abc"),
      "fdc_ids" :> JList(<<JInt(2344719), JInt(2344720)>>),
      ("fdc_ids" :> JList(<<JInt(12), JInt(34), JInt(12)>>)) @@ ("format" :> JStr("abridged")),
      "fdc_ids" :> JList(<<>>),
      "fdc_ids" :> JStr("12"),
      "fdc_ids" :> JInt(5),
      "image_path" :> JStr("/img/pizza.jpg"),
      "image_path" :> JStr("/does/not/exist.jpg"),
      "image_path" :> JNull }

Uris == {"food://search", "food://details", "food://unknown", "food://search/"}

Request(op, name, args, uri) ==
    [op |-> op, name |-> name, args |-> args, uri |-> uri, done |-> FALSE]

Idle == [op |-> "none", name |-> "", args |-> EmptyArgs, uri |-> "", done |-> TRUE]

ToolCalls == {Request("call_tool", n, a, "") : n \in ToolNames, a \in ArgsDomain}

Requests ==
    ToolCalls
    \cup {Request("read_resource", "", EmptyArgs, u) : u \in Uris}
    \cup {Request("list_tools", "", EmptyArgs, ""), Request("list_resources", "", EmptyArgs, "")}

\* the search result of the spec's example, a classification, and values
\* whose text needs escaping or looks like an error
SearchBody ==
    JDict(<<"totalHits", "foods">>,
          <<JInt(1), JList(<<JDict(<<"fdcId", "description">>,
                                   <<JInt(1), JStr("Apple, raw")>>)>>)>>)
ClassifyBody ==
    JDict(<<"predicted_class", "confidence", "success">>,
          <<JStr("pizza"), JInt(97), JBool(TRUE)>>)
ErrorBody == JDict(<<"error">>, <<JStr("boom")>>)

SmallBodies ==
    {SearchBody, ClassifyBody, ErrorBody, JStr("Error: \"x\" \\ y"), JList(<<>>), JInt(-12)}

Atoms ==
    {JNull, JBool(TRUE), JBool(FALSE), JInt(-12), JInt(105), JStr(""), JStr("a\"b\\")}

Keys == <<"foods", "totalHits", "a\"b", "error", "x y">>

Lists == {JList(c) : c \in BoundedSeq(Atoms, MaxItems)}
Dicts == {JDict(SubSeq(Keys, 1, Len(c)), c) : c \in BoundedSeq(Atoms, MaxItems)}
Nested == {JDict(<<"foods">>, <<JList(<<d>>)>>) : d \in Dicts}

RichBodies == SmallBodies \cup Atoms \cup Lists \cup Dicts \cup Nested

\* both wire forms of each value
JsonResponses(statuses, bodies) ==
    {JsonResponse(st, CompactBody(b), b) : st \in statuses, b \in bodies}
    \cup {JsonResponse(st, json_dumps(b), b) : st \in statuses, b \in bodies}

\* JSON texts no encoder of the model writes: a repeated key, blanks
OddResponses(statuses) ==
    {JsonResponse(st, "{\"a\":1,\"b\":[],\"a\":2}",
                  JDict(<<"a", "b">>, <<JInt(2), JList(<<>>)>>)) : st \in statuses}
    \cup {JsonResponse(st, " [ 1 ,\"x\" ] ", JList(<<JInt(1), JStr("x")>>)) : st \in statuses}

NotJson == {"", "<html>", "{\"foods\":", "[1,]"}

FailureOutcomes ==
    JsonResponses({302, 404, 500}, {ErrorBody, SearchBody})
    \cup {RawResponse(st, b) : st \in {302, 404, 500}, b \in {"", "<html>"}}
    \cup {ConnectError, ReadTimeout}

Outcomes ==
    JsonResponses({200, 201}, SmallBodies)
    \cup OddResponses({200})
    \cup {RawResponse(st, b) : st \in {200, 204}, b \in NotJson}
    \cup FailureOutcomes

RichOutcomes == JsonResponses({200}, RichBodies) \cup OddResponses({200, 201})

\* the call ended in a Failure
IsFailure(r) ==
    \/ r.raised
    \/ Len(r.content) = 1 /\ StartsWith(r.content[1].text, "Error: ")

(***************************************************************************)
(* The backend of this repository (src/backend/app.py) as it answers one   *)
(* HTTP request.  Its environment env is                                   *)
(*   key        USDA_API_KEY is set,                                       *)
(*   usda       what the USDA API does with the one request it may get,    *)
(*   classifier "loaded", "no_model_file" or "predict_raises",             *)
(*   klass      the index the classifier picks.                            *)
(***************************************************************************)
\* the text httpx puts into the query string for a value of params
primitive_value_to_str(v) ==
    CASE v.t = "bool" -> (IF v.n = 1 THEN "true" ELSE "false")
      [] v.t = "null" -> ""
      [] OTHER -> PyStr(v)

\* the path of the URL below the backend's base URL
UrlPath(url) ==
    IF StartsWith(url, BACKEND_URL) THEN SubSeq(url, Len(BACKEND_URL) + 1, Len(url)) ELSE url

\* request.args: the first value of each key of the query string
RequestArgs(req) ==
    [k \in {req.params[i][1] : i \in 1..Len(req.params)} |->
        LET i == CHOOSE j \in 1..Len(req.params) :
                    /\ req.params[j][1] = k
                    /\ \A h \in 1..(j - 1) : req.params[h][1] # k
        IN primitive_value_to_str(req.params[i][2])]

\* int(text) succeeds: an optional sign and digits
IsIntText(x) ==
    LET d == IF Ch(x, 1) \in {"-", "+"} THEN 2 ELSE 1
    IN Len(x) >= d /\ \A i \in d..Len(x) : IsDigit(Ch(x, i))

\* int(text) of a text IsIntText accepts
IntOfText(x) ==
    LET neg == Ch(x, 1) = "-"
        d == IF Ch(x, 1) \in {"-", "+"} THEN 2 ELSE 1
        n == ParseDigits(x, d, 0).n
    IN IF neg THEN 0 - n ELSE n

\* a JSON answer of the backend: flask-restx writes json.dumps(data) and a
\* line feed
BackendJson(status, data) == JsonResponse(status, json_dumps(data) \o "\n", data)

\* abort(400, ...) of a request parser: the argument name and its message
ParserAbort(name, msg) ==
    BackendJson(400, JDict(<<"errors", "message">>,
                           <<JDict(<<name>>, <<JStr(msg)>>),
                             JStr("Input payload validation failed")>>))

DataTypeChoices == {"Foundation", "SR Legacy", "Survey", "Branded"}
SortByChoices == {"dataType.keyword", "lowercaseDescription.keyword", "fdcId", "publishedDate"}
SortOrderChoices == {"asc", "desc"}

\* one optional str argument: None when absent
StrArg(a, k) == IF k \in DOMAIN a THEN JStr(a[k]) ELSE JNull
\* one optional int argument with a default
IntArg(a, k, default) == IF k \in DOMAIN a THEN JInt(IntOfText(a[k])) ELSE JInt(default)

\* search_parser.parse_args(): [ok, abort, args]; the arguments are read in
\* the order they were added and the first bad one aborts with 400
search_parser(a) ==
    LET bad(k, help) == [ok |-> FALSE, abort |-> ParserAbort(k, help), args |-> EmptyArgs]
    IN IF "query" \notin DOMAIN a
       THEN bad("query", "Search query for food items Missing required parameter in the query string")
       ELSE IF "dataType" \in DOMAIN a /\ a["dataType"] \notin DataTypeChoices
       THEN bad("dataType", "Filter by data type The value '" \o a["dataType"]
                            \o "' is not a valid choice for 'dataType'.")
       ELSE IF "pageSize" \in DOMAIN a /\ ~IsIntText(a["pageSize"])
       THEN bad("pageSize", "Number of results per page (1-200) invalid literal for int() with base 10: '"
                            \o a["pageSize"] \o "'")
       ELSE IF "pageNumber" \in DOMAIN a /\ ~IsIntText(a["pageNumber"])
       THEN bad("pageNumber", "Page number (starts from 1) invalid literal for int() with base 10: '"
                              \o a["pageNumber"] \o "'")
       ELSE IF "sortBy" \in DOMAIN a /\ a["sortBy"] \notin SortByChoices
       THEN bad("sortBy", "Field to sort results by The value '" \o a["sortBy"]
                          \o "' is not a valid choice for 'sortBy'.")
       ELSE IF "sortOrder" \in DOMAIN a /\ a["sortOrder"] \notin SortOrderChoices
       THEN bad("sortOrder", "Sort order for results The value '" \o a["sortOrder"]
                             \o "' is not a valid choice for 'sortOrder'.")
       ELSE [ok |-> TRUE, abort |-> NoOutcome,
             args |-> [k \in {"query", "dataType", "pageSize", "pageNumber",
                              "sortBy", "sortOrder", "brandOwner"} |->
                         CASE k = "pageSize" -> IntArg(a, k, 50)
                           [] k = "pageNumber" -> IntArg(a, k, 1)
                           [] OTHER -> StrArg(a, k)]]

\* bool(v): None, "", 0, False and the empty containers are false
Truthy(v) ==
    ~ \/ v.t = "null"
      \/ v.t = "str" /\ v.s = ""
      \/ v.t \in {"int", "bool"} /\ v.n = 0
      \/ v.t \in {"list", "dict"} /\ v.c = <<>>

\* data[key], None when data is no dict or lacks the key
get_value(key, data) ==
    IF data.t = "dict" /\ \E i \in 1..Len(data.ks) : data.ks[i] = key
    THEN data.c[CHOOSE i \in 1..Len(data.ks) : data.ks[i] = key]
    ELSE JNull

\* a field whose value cannot be formatted
MarshallingError == [t |-> "error", n |-> 0, s |-> "", ks |-> <<>>, c |-> <<>>]

\* fields.Integer: None stays None, int(value) otherwise
FieldInteger(v) ==
    CASE v.t = "null" -> JNull
      [] v.t \in {"int", "bool"} -> JInt(v.n)
      [] v.t = "str" /\ IsIntText(v.s) -> JInt(IntOfText(v.s))
      [] OTHER -> MarshallingError

\* fields.String: None stays None, str(value) otherwise
FieldString(v) == IF v.t = "null" THEN JNull ELSE JStr(PyStr(v))

\* fields.Boolean: None stays None, bool(value) otherwise
FieldBoolean(v) == IF v.t = "null" THEN JNull ELSE JBool(Truthy(v))

\* fields.Float on the integers of the model (floats are outside it)
FieldFloat(v) == IF v.t = "null" THEN JNull ELSE IF v.t = "int" THEN v ELSE MarshallingError

\* what fields.List iterates over: a list's items, or the one value
ListItems(v) == IF v.t = "list" THEN v.c ELSE <<v>>

\* fields.List(fields.Nested(model)): None stays None and so does an item
\* that is None; out holds the items of ListItems(v) marshalled with model
FieldList(v, out) ==
    IF v.t = "null" THEN JNull
    ELSE JList([i \in 1..Len(out) |-> IF ListItems(v)[i].t = "null" THEN JNull ELSE out[i]])

\* marshal(data, nutrient_model)
marshal_nutrient(d) ==
    JDict(<<"nutrientId", "nutrientName", "value", "unitName">>,
          <<FieldInteger(get_value("nutrientId", d)), FieldString(get_value("nutrientName", d)),
            FieldFloat(get_value("value", d)), FieldString(get_value("unitName", d))>>)

\* the items of a foodNutrients value, each marshalled with nutrient_model
NutrientItems(v) == [i \in 1..Len(ListItems(v)) |-> marshal_nutrient(ListItems(v)[i])]

\* marshal(data, food_model)
marshal_food(d) ==
    JDict(<<"fdcId", "description", "dataType", "brandOwner", "foodNutrients">>,
          <<FieldInteger(get_value("fdcId", d)), FieldString(get_value("description", d)),
            FieldString(get_value("dataType", d)), FieldString(get_value("brandOwner", d)),
            FieldList(get_value("foodNutrients", d),
                      NutrientItems(get_value("foodNutrients", d)))>>)

\* the items of a foods value, each marshalled with food_model
FoodItems(v) == [i \in 1..Len(ListItems(v)) |-> marshal_food(ListItems(v)[i])]

\* marshal(data, search_result_model)
marshal_search_result(d) ==
    JDict(<<"totalHits", "currentPage", "totalPages", "foods">>,
          <<FieldInteger(get_value("totalHits", d)), FieldInteger(get_value("currentPage", d)),
            FieldInteger(get_value("totalPages", d)),
            FieldList(get_value("foods", d), FoodItems(get_value("foods", d)))>>)

\* marshal(data, classification_result_model)
marshal_classification(d) ==
    JDict(<<"predicted_class", "confidence", "success">>,
          <<FieldString(get_value("predicted_class", d)), FieldFloat(get_value("confidence", d)),
            FieldBoolean(get_value("success", d))>>)

\* marshal(data, model) of one value that is no list
marshal_one(model, d) ==
    IF model = "SearchResult" THEN marshal_search_result(d) ELSE marshal_classification(d)

\* some field of the marshalled value could not be formatted
RECURSIVE HasMarshallingError(_)
HasMarshallingError(v) ==
    \/ v.t = "error"
    \/ \E i \in 1..Len(v.c) : HasMarshallingError(v.c[i])

\* an error the framework answers itself
FrameworkError(status, message) == BackendJson(status, JDict(<<"message">>, <<JStr(message)>>))

\* marshal(data, model): a list is marshalled item by item
marshal(model, data) ==
    IF data.t = "list"
    THEN JList([i \in 1..Len(data.c) |-> marshal_one(model, data.c[i])])
    ELSE marshal_one(model, data)

\* @ns.marshal_with(model) around a handler: whatever the handler returns,
\* the data of an (error, status) pair included, is marshalled with the
\* model of the success answer
marshal_with(model, data, status) ==
    LET m == marshal(model, data)
    IN IF HasMarshallingError(m)
       THEN FrameworkError(500, "Internal Server Error")
       ELSE BackendJson(status, m)

BASE_URL == "https://api.nal.usda.gov/fdc/v1"

\* raise_for_status() of requests: HTTPError on 4xx and 5xx
requests_raise_for_status(o) == o.status >= 400 /\ o.status < 600

\* make_usda_request(endpoint, params): [raised, response, calls].  Without
\* the key it raises before any request; a request that fails or is answered
\* 4xx/5xx raises a RequestException
make_usda_request(endpoint, params, env) ==
    LET req == HttpRequest("GET", BASE_URL \o "/" \o endpoint,
                           Append(params, <<"api_key", JStr("USDA_API_KEY")>>), "")
    IN IF ~env.key
       THEN [raised |-> TRUE, response |-> NoOutcome, calls |-> <<>>]
       ELSE IF env.usda.kind # "response" \/ requests_raise_for_status(env.usda)
       THEN [raised |-> TRUE, response |-> NoOutcome, calls |-> <<req>>]
       ELSE [raised |-> FALSE, response |-> env.usda, calls |-> <<req>>]

\* the optional parameters FoodSearch.get forwards when they are truthy
RECURSIVE OptionalParams(_, _)
OptionalParams(args, names) ==
    IF names = <<>> THEN <<>>
    ELSE (IF Truthy(args[Head(names)]) THEN <<<<Head(names), args[Head(names)]>>>> ELSE <<>>)
         \o OptionalParams(args, Tail(names))

\* a handler's return value: the data and the status
Return(data, status, usda) == [data |-> data, status |-> status, usda |-> usda]

\* {'error': msg}
ErrorDict(msg) == JDict(<<"error">>, <<JStr(msg)>>)

\* the body of FoodSearch.get after parse_args().  A body of USDA that is
\* no JSON raises requests.exceptions.JSONDecodeError, a RequestException
FoodSearch_body(args, env) ==
    IF ~Truthy(args["query"])
    THEN Return(ErrorDict("Query parameter is required"), 400, <<>>)
    ELSE LET params == << <<"query", args["query"]>>,
                          <<"pageSize", args["pageSize"]>>,
                          <<"pageNumber", args["pageNumber"]>> >>
                       \o OptionalParams(args, <<"dataType", "sortBy", "sortOrder", "brandOwner">>)
             r == make_usda_request("foods/search", params, env)
             parsed == json_loads(r.response.body)
         IN IF r.raised \/ ~parsed.ok
            THEN Return(ErrorDict("Failed to search foods"), 500, r.calls)
            ELSE Return(parsed.v, 200, r.calls)

\* FoodSearch.get under its decorators: [resp, usda], the answer and the
\* requests made of the USDA API
FoodSearch_get(a, env) ==
    LET p == search_parser(a)
        r == FoodSearch_body(p.args, env)
    IN IF ~p.ok THEN [resp |-> p.abort, usda |-> <<>>, loadCalls |-> 0]
       ELSE [resp |-> marshal_with("SearchResult", r.data, r.status), usda |-> r.usda,
             loadCalls |-> 0]

CLASS_NAMES ==
    <<"apple_pie", "baked_potato", "burger", "butter_naan", "chai",
      "chapati", "cheesecake", "chicken_curry", "chole_bhature",
      "crispy_chicken", "dal_makhani", "dhokla", "donut", "fried_rice",
      "fries", "hot_dog", "ice_cream", "idli", "jalebi", "kaathi_rolls",
      "kadai_paneer", "kulfi", "masala_dosa", "momos", "omelette",
      "paani_puri", "pakode", "pav_bhaji", "pizza", "samosa", "sandwich",
      "sushi", "taco", "taquito">>

\* what ImageClassify.get returns: the data, the status and how often it
\* called load_classification_model
Classified(data, status, loadCalls) ==
    [data |-> data, status |-> status, loadCalls |-> loadCalls]

\* the body with the model loaded before the file is looked for
ImageClassify_body_eager(a, env) ==
    IF a["image_path"] = ""
    THEN Classified(ErrorDict("image_path parameter is required"), 400, 0)
    ELSE IF env.classifier = "no_model_file"
    THEN Classified(ErrorDict("Classification model not found"), 500, 1)
    ELSE IF a["image_path"] \notin ReadablePaths
    THEN Classified(ErrorDict("Image file not found: " \o a["image_path"]), 400, 1)
    ELSE IF env.classifier = "predict_raises"
    THEN Classified(ErrorDict("Classification failed: cannot identify image file"), 500, 1)
    ELSE Classified(JDict(<<"predicted_class", "confidence", "success">>,
                          <<JStr(CLASS_NAMES[env.klass]), JInt(97), JBool(TRUE)>>), 200, 1)

\* the body of ImageClassify.get after parse_args().  The confidence is a
\* whole per cent in the model
ImageClassify_body(a, env) ==
    IF a["image_path"] = ""
    THEN Classified(ErrorDict("image_path parameter is required"), 400, 0)
    ELSE IF a["image_path"] \notin ReadablePaths
    THEN Classified(ErrorDict("Image file not found: " \o a["image_path"]), 400, 0)
    ELSE IF env.classifier = "no_model_file"
    THEN Classified(ErrorDict("Classification model not found"), 500, 1)
    ELSE IF env.classifier = "predict_raises"
    THEN Classified(ErrorDict("Classification failed: cannot identify image file"), 500, 1)
    ELSE Classified(JDict(<<"predicted_class", "confidence", "success">>,
                          <<JStr(CLASS_NAMES[env.klass]), JInt(97), JBool(TRUE)>>), 200, 1)

\* ImageClassify.get under its decorators
ImageClassify_get(a, env) ==
    IF "image_path" \notin DOMAIN a
    THEN [resp |-> ParserAbort("image_path",
                       "Path to the image file to classify Missing required parameter in the query string"),
          usda |-> <<>>, loadCalls |-> 0]
    ELSE LET r == ImageClassify_body(a, env)
         IN [resp |-> marshal_with("ClassificationResult", r.data, r.status), usda |-> <<>>,
             loadCalls |-> r.loadCalls]

\* the routes of the application: a path no route has answers 404, a
\* method the route's resource does not define answers 405
Backend(req, env) ==
    LET path == UrlPath(req.url)
        none(o) == [resp |-> o, usda |-> <<>>, loadCalls |-> 0]
    IN CASE path = "/api/search" ->
              IF req.method = "GET" THEN FoodSearch_get(RequestArgs(req), env)
              ELSE none(FrameworkError(405, "The method is not allowed for the requested URL."))
         [] path = "/api/classify" ->
              IF req.method = "GET" THEN ImageClassify_get(RequestArgs(req), env)
              ELSE none(FrameworkError(405, "The method is not allowed for the requested URL."))
         [] path = "/health" ->
              IF req.method = "GET"
              THEN none(BackendJson(200, JDict(<<"status", "service">>,
                                               <<JStr("ok"), JStr("Food Data Central Python API")>>)))
              ELSE none(FrameworkError(405, "The method is not allowed for the requested URL."))
         [] OTHER -> none(FrameworkError(404, "The requested URL was not found on the server."))

(***************************************************************************)
(* The environments of the backend and the requests sent to it directly.   *)
(***************************************************************************)
\* a search result as the USDA API sends it
UsdaSearchBody ==
    JDict(<<"totalHits", "currentPage", "totalPages", "foods", "pageList">>,
          <<JInt(1), JInt(1), JInt(1),
            JList(<<JDict(<<"fdcId", "description", "dataType", "score", "foodNutrients">>,
                          <<JInt(2344719), JStr("Apple, raw"), JStr("Foundation"), JInt(5),
                            JList(<<JDict(<<"nutrientId", "nutrientName", "unitName">>,
                                          <<JInt(203), JStr("Protein"), JStr("G")>>)>>)>>)>>),
            JList(<<JInt(1)>>)>>)

UsdaOutcomes ==
    { JsonResponse(200, CompactBody(UsdaSearchBody), UsdaSearchBody),
      JsonResponse(200, "{\"totalHits\":0,\"foods\":[]}",
                   JDict(<<"totalHits", "foods">>, <<JInt(0), JList(<<>>)>>)),
      RawResponse(200, "<html>"),
      JsonResponse(403, CompactBody(ErrorBody), ErrorBody),
      JsonResponse(404, CompactBody(ErrorBody), ErrorBody),
      RawResponse(500, ""),
      ConnectError,
      ReadTimeout }

\* the USDA API answered 2xx with a JSON body
UsdaOk(env) == env.key /\ env.usda.kind = "response" /\ is_success(env.usda.status) /\ env.usda.isJson

Envs ==
    [key : BOOLEAN, usda : UsdaOutcomes,
     classifier : {"loaded", "no_model_file", "predict_raises"},
     klass : {1, Len(CLASS_NAMES)}]

NoEnv == [key |-> FALSE, usda |-> NoOutcome, classifier |-> "loaded", klass |-> 1]

QueryStrings ==
    { <<>>,
      << <<"query", JStr("apple")>> >>,
      << <<"query", JStr("")>> >>,
      << <<"food_name", JStr("apple")>> >>,
      << <<"food_name", JStr("apple")>>, <<"query", JStr("pear")>> >>,
      << <<"query", JStr("apple")>>, <<"pageSize", JStr("10")>>, <<"pageNumber", JStr("2")>> >>,
      << <<"query", JStr("apple")>>, <<"pageSize", JStr("ten")>> >>,
      << <<"query", JStr("apple")>>, <<"dataType", JStr("Branded")>> >>,
      << <<"query", JStr("apple")>>, <<"dataType", JStr("bogus")>> >>,
      << <<"image_path", JStr("/img/pizza.jpg")>> >>,
      << <<"image_path", JStr("/does/not/exist.jpg")>> >>,
      << <<"image_path", JStr("")>> >> }

\* the requests a client of the backend sends
BackendRequests ==
    {HttpRequest("GET", BACKEND_URL \o path, q, "") :
        path \in {"/api/search", "/api/classify"}, q \in QueryStrings}
    \cup {HttpRequest("POST", BACKEND_URL \o path, <<>>, "/img/pizza.jpg") :
            path \in {"/api/search", "/api/classify"}}
    \cup {HttpRequest("GET", BACKEND_URL \o path, <<>>, "") :
            path \in {"/health", "/api/food/2344719", "/api/foods"}}

NoBackend ==
    [set |-> FALSE, req |-> HttpRequest("", "", <<>>, ""), env |-> NoEnv,
     resp |-> NoOutcome, usda |-> <<>>, loadCalls |-> 0]

\* the exchange of the backend with one client request
Exchange(req, env) ==
    LET b == Backend(req, env)
    IN [set |-> TRUE, req |-> req, env |-> env, resp |-> b.resp, usda |-> b.usda,
        loadCalls |-> b.loadCalls]

\* no call was answered before cur
NoPrev == [set |-> FALSE, req |-> Idle, outcome |-> NoOutcome, result |-> NoResult]

MaxThreads == 2
MaxRequests == 3

\* the threads app.run serves requests with
Threads == 1..MaxThreads

\* the classifier cache of a backend process that no classify request has
\* reached: _model is None (0); a loaded model is named by the number of
\* the load that made it
NoLoader ==
    [file |-> FALSE, _model |-> 0, loads |-> 0, started |-> 0, returned |-> {},
     pc |-> [t \in Threads |-> "idle"], model |-> [t \in Threads |-> 0]]

\* the rounds of a tool loop, set in food_summary_with_openai and
\* chat_with_openai alike
max_iterations == 10

\* how many responses of one run may carry more than one tool call
MaxBatches == 2

\* no LLM tool loop has run.  fn is the loop, env what it finds installed,
\* sessionOk and o how the server and the backend answer its tool calls;
\* iteration, messages and message are the loop's locals, next the tool call
\* the for loop is at; requests counts the calls of
\* client.chat.completions.create and sent is how many messages the last one
\* carried
NoChat ==
    [fn |-> "", env |-> "", sessionOk |-> FALSE, o |-> NoOutcome, pc |-> "none",
     iteration |-> 0, requests |-> 0, sent |-> 0, batches |-> 0, messages |-> <<>>,
     message |-> [content |-> JNull, tool_calls |-> <<>>], next |-> 0, value |-> ""]

\* food_summary_basic has not run
NoSummary ==
    [set |-> FALSE, fn |-> "", label |-> "", sessionOk |-> FALSE, detail |-> NoOutcome,
     value |-> JNull]

(***************************************************************************)
(* The server: construction, run(), and one action per handler.            *)
(***************************************************************************)
HandlerNames == {"list_resources", "read_resource", "list_tools", "call_tool"}

Init ==
    /\ phase = "Uninitialized"
    /\ handlers = {}
    /\ cur = Idle
    /\ outcome = NoOutcome
    /\ result = NoResult
    /\ resource = NoResource
    /\ toolsSeen = {}
    /\ resourcesSeen = {}
    /\ listCalls = 0
    /\ failedSinceList = FALSE
    /\ prev = NoPrev
    /\ backend = NoBackend
    /\ summary = NoSummary
    /\ loader = NoLoader
    /\ chat = NoChat

\* run(): await self.setup_handlers()
SetupHandlers ==
    /\ phase = "Uninitialized"
    /\ handlers' = HandlerNames
    /\ phase' = "Ready"
    /\ UNCHANGED <<prev, backend, summary, loader, chat>>
    /\ UNCHANGED <<cur, outcome, result, resource, toolsSeen, resourcesSeen,
                   listCalls, failedSinceList>>

\* the stdio stream opened without waiting for setup_handlers
OpenStdio_unregistered ==
    /\ phase \in {"Uninitialized", "Ready"}
    /\ phase' = "Serving"
    /\ UNCHANGED <<prev, backend, summary, loader, chat>>
    /\ UNCHANGED <<handlers, cur, outcome, result, resource, toolsSeen, resourcesSeen,
                   listCalls, failedSinceList>>

\* run(): async with stdio_server() ... await self.server.run(...)
OpenStdio ==
    /\ phase = "Ready"
    /\ phase' = "Serving"
    /\ UNCHANGED <<prev, backend, summary, loader, chat>>
    /\ UNCHANGED <<handlers, cur, outcome, result, resource, toolsSeen, resourcesSeen,
                   listCalls, failedSinceList>>

\* the serving loop reads the next request once the last one is answered
ReadRequest ==
    /\ phase = "Serving"
    /\ cur.done
    /\ \E r \in Requests : cur' = r
    /\ outcome' = NoOutcome
    /\ result' = NoResult
    /\ resource' = NoResource
    /\ UNCHANGED <<prev, backend, summary, loader, chat>>
    /\ UNCHANGED <<phase, handlers, toolsSeen, resourcesSeen, listCalls, failedSinceList>>

Pending(op) == phase = "Serving" /\ cur.op = op /\ ~cur.done /\ op \in handlers

ListTools ==
    /\ Pending("list_tools")
    /\ toolsSeen' = toolsSeen \cup {handle_list_tools}
    /\ listCalls' = IF listCalls < MaxListCalls THEN listCalls + 1 ELSE listCalls
    /\ cur' = [cur EXCEPT !.done = TRUE]
    /\ UNCHANGED <<prev, backend, summary, loader, chat>>
    /\ UNCHANGED <<phase, handlers, outcome, result, resource, resourcesSeen, failedSinceList>>

ListResources ==
    /\ Pending("list_resources")
    /\ resourcesSeen' = resourcesSeen \cup {handle_list_resources}
    /\ cur' = [cur EXCEPT !.done = TRUE]
    /\ UNCHANGED <<prev, backend, summary, loader, chat>>
    /\ UNCHANGED <<phase, handlers, outcome, result, resource, toolsSeen, listCalls,
                   failedSinceList>>

ReadResource ==
    /\ Pending("read_resource")
    /\ resource' = handle_read_resource(cur.uri)
    /\ failedSinceList' = (failedSinceList \/ (listCalls > 0 /\ resource'.raised))
    /\ cur' = [cur EXCEPT !.done = TRUE]
    /\ UNCHANGED <<prev, backend, summary, loader, chat>>
    /\ UNCHANGED <<phase, handlers, outcome, result, toolsSeen, resourcesSeen, listCalls>>

\* one CallTool against a backend that answers with one of outs
CallToolWith(outs) ==
    /\ Pending("call_tool")
    /\ \E o \in outs :
          LET r == handle_call_tool(cur.name, cur.args, o)
          IN /\ result' = r
             /\ outcome' = IF r.calls = <<>> THEN NoOutcome ELSE o
             /\ failedSinceList' = (failedSinceList \/ (listCalls > 0 /\ IsFailure(r)))
    /\ cur' = [cur EXCEPT !.done = TRUE]
    /\ UNCHANGED <<prev, backend, summary, loader, chat>>
    /\ UNCHANGED <<phase, handlers, resource, toolsSeen, resourcesSeen, listCalls>>

CallTool == CallToolWith(Outcomes)

\* the read stream ends: server.run returns, nothing is in flight any more
Eof ==
    /\ phase = "Serving"
    /\ cur.done
    /\ phase' = "Closed"
    /\ cur' = Idle
    /\ outcome' = NoOutcome
    /\ result' = NoResult
    /\ resource' = NoResource
    /\ UNCHANGED <<prev, backend, summary, loader, chat>>
    /\ UNCHANGED <<handlers, toolsSeen, resourcesSeen, listCalls, failedSinceList>>

Next ==
    \/ SetupHandlers
    \/ OpenStdio
    \/ ReadRequest
    \/ ListTools
    \/ ListResources
    \/ ReadResource
    \/ CallTool
    \/ Eof

Spec == Init /\ [][Next]_vars

(***************************************************************************)
(* One tool call against every JSON body of RichBodies: the request is     *)
(* drawn first, the action answers it.                                     *)
(***************************************************************************)
InitBodies ==
    /\ phase = "Serving"
    /\ handlers = HandlerNames
    /\ cur \in ToolCalls
    /\ outcome = NoOutcome
    /\ result = NoResult
    /\ resource = NoResource
    /\ toolsSeen = {}
    /\ resourcesSeen = {}
    /\ listCalls = 0
    /\ failedSinceList = FALSE
    /\ prev = NoPrev
    /\ backend = NoBackend
    /\ summary = NoSummary
    /\ loader = NoLoader
    /\ chat = NoChat

CallToolRich == CallToolWith(RichOutcomes)

NextBodies == CallToolRich

SpecBodies == InitBodies /\ [][NextBodies]_vars

(***************************************************************************)
(* The server in front of this repository's backend: the request a tool    *)
(* handler sends is answered by Backend, and that answer is what the        *)
(* handler sees.  A client may also ask the backend directly.              *)
(***************************************************************************)
\* the upstream calls handle_call_tool makes for a request; they do not
\* depend on what the backend answers
UpstreamRequests(name, args) == handle_call_tool(name, args, NoOutcome).calls

InitBackend ==
    /\ phase = "Serving"
    /\ handlers = HandlerNames
    /\ cur \in ToolCalls \cup {Idle}
    /\ outcome = NoOutcome
    /\ result = NoResult
    /\ resource = NoResource
    /\ toolsSeen = {}
    /\ resourcesSeen = {}
    /\ listCalls = 0
    /\ failedSinceList = FALSE
    /\ prev = NoPrev
    /\ backend = NoBackend
    /\ summary = NoSummary
    /\ loader = NoLoader
    /\ chat = NoChat

\* one CallTool whose upstream call, if it makes one, goes to Backend
CallToolBackend ==
    /\ Pending("call_tool")
    /\ \E env \in Envs :
          LET sent == UpstreamRequests(cur.name, cur.args)
              x == IF sent = <<>> THEN NoBackend ELSE Exchange(sent[1], env)
          IN /\ backend' = x
             /\ outcome' = x.resp
             /\ result' = handle_call_tool(cur.name, cur.args, x.resp)
    /\ cur' = [cur EXCEPT !.done = TRUE]
    /\ UNCHANGED <<prev, summary, loader, chat>>
    /\ UNCHANGED <<phase, handlers, resource, toolsSeen, resourcesSeen, listCalls,
                   failedSinceList>>

\* one request sent to the backend by a client of its own
BackendServe ==
    /\ cur = Idle
    /\ ~backend.set
    /\ \E req \in BackendRequests, env \in Envs : backend' = Exchange(req, env)
    /\ UNCHANGED <<prev, summary, loader, chat>>
    /\ UNCHANGED <<phase, handlers, cur, outcome, result, resource, toolsSeen, resourcesSeen,
                   listCalls, failedSinceList>>

NextBackend ==
    \/ CallToolBackend
    \/ BackendServe

SpecBackend == InitBackend /\ [][NextBackend]_vars

(***************************************************************************)
(* load_classification_model in the threads of the backend.  app.run       *)
(* serves each request in a thread of its own, and the function takes no   *)
(* lock, so its steps interleave: the test of _model, the test of the      *)
(* model file, the loading body, the assignment to _model, the return.     *)
(***************************************************************************)
InitLoad ==
    /\ phase = "Serving"
    /\ handlers = HandlerNames
    /\ cur = Idle
    /\ outcome = NoOutcome
    /\ result = NoResult
    /\ resource = NoResource
    /\ toolsSeen = {}
    /\ resourcesSeen = {}
    /\ listCalls = 0
    /\ failedSinceList = FALSE
    /\ prev = NoPrev
    /\ backend = NoBackend
    /\ summary = NoSummary
    /\ \E f \in BOOLEAN : loader = [NoLoader EXCEPT !.file = f]
    /\ chat = NoChat

LoaderOnly ==
    UNCHANGED <<phase, handlers, cur, outcome, result, resource, toolsSeen, resourcesSeen,
                listCalls, failedSinceList, prev, backend, summary, chat>>

\* a classify request reaches model = load_classification_model() in thread t
ClassifyArrives(t) ==
    /\ loader.pc[t] = "idle"
    /\ loader.started < MaxRequests
    /\ loader' = [loader EXCEPT !.pc[t] = "test", !.started = @ + 1]
    /\ LoaderOnly

\* if _model is None:
LoadTest(t) ==
    /\ loader.pc[t] = "test"
    /\ loader' = [loader EXCEPT !.pc[t] = IF loader._model = 0 THEN "exists" ELSE "return"]
    /\ LoaderOnly

\* if not os.path.exists(model_path): raise FileNotFoundError
LoadExists(t) ==
    /\ loader.pc[t] = "exists"
    /\ loader' = [loader EXCEPT !.pc[t] = IF loader.file THEN "load" ELSE "idle"]
    /\ LoaderOnly

\* the loading body: efficientnet_v2_m, load_state_dict, to(device), eval()
LoadBody(t) ==
    /\ loader.pc[t] = "load"
    /\ loader' = [loader EXCEPT !.pc[t] = "assign", !.loads = @ + 1,
                                !.model[t] = loader.loads + 1]
    /\ LoaderOnly

\* _model = model
LoadAssign(t) ==
    /\ loader.pc[t] = "assign"
    /\ loader' = [loader EXCEPT !.pc[t] = "return", !._model = loader.model[t]]
    /\ LoaderOnly

\* return _model
LoadReturn(t) ==
    /\ loader.pc[t] = "return"
    /\ loader' = [loader EXCEPT !.pc[t] = "idle", !.model[t] = 0,
                                !.returned = @ \cup {loader._model}]
    /\ LoaderOnly

\* the model file is put in place
ModelFileInstalled ==
    /\ ~loader.file
    /\ loader' = [loader EXCEPT !.file = TRUE]
    /\ LoaderOnly

NextLoad ==
    \/ \E t \in Threads :
          \/ ClassifyArrives(t)
          \/ LoadTest(t)
          \/ LoadExists(t)
          \/ LoadBody(t)
          \/ LoadAssign(t)
          \/ LoadReturn(t)
    \/ ModelFileInstalled

SpecLoad == InitLoad /\ [][NextLoad]_vars

(***************************************************************************)
(* Two tool calls of one session, one after the other: prev keeps the      *)
(* first call, its outcome and its answer while the second is served.      *)
(***************************************************************************)
TwiceCalls ==
    { Request("call_tool", "search_foods", "query" :> JStr("apple"), ""),
      Request("call_tool", "search_foods", EmptyArgs, ""),
      Request("call_tool", "classify", "image_path" :> JStr("/img/pizza.jpg"), ""),
      Request("call_tool", "classify", "image_path" :> JStr("/does/not/exist.jpg"), ""),
      Request("call_tool", "get_food_details", "fdc_id" :> JInt(2344719), ""),
      Request("call_tool", "get_multiple_foods", "fdc_ids" :> JInt(5), ""),
      Request("call_tool", "get_multiple_foods",
              "fdc_ids" :> JList(<<JInt(2344719), JInt(2344720)>>), ""),
      Request("call_tool", "bogus", "query" :> JStr("apple"), "") }

TwiceOutcomes ==
    { JsonResponse(200, CompactBody(SearchBody), SearchBody),
      JsonResponse(200, CompactBody(ClassifyBody), ClassifyBody),
      JsonResponse(200, json_dumps(JList(<<>>)), JList(<<>>)),
      JsonResponse(500, CompactBody(ErrorBody), ErrorBody),
      RawResponse(200, "<html>"),
      ConnectError,
      ReadTimeout }

InitTwice ==
    /\ phase = "Serving"
    /\ handlers = HandlerNames
    /\ cur = Idle
    /\ outcome = NoOutcome
    /\ result = NoResult
    /\ resource = NoResource
    /\ toolsSeen = {}
    /\ resourcesSeen = {}
    /\ listCalls = 0
    /\ failedSinceList = FALSE
    /\ prev = NoPrev
    /\ backend = NoBackend
    /\ summary = NoSummary
    /\ loader = NoLoader
    /\ chat = NoChat

\* the loop reads the first call, or the second once the first is answered
ReadTwice ==
    /\ phase = "Serving"
    /\ cur.done
    /\ ~prev.set
    /\ \E r \in TwiceCalls : cur' = r
    /\ prev' = IF cur = Idle THEN NoPrev
               ELSE [set |-> TRUE, req |-> cur, outcome |-> outcome, result |-> result]
    /\ outcome' = NoOutcome
    /\ result' = NoResult
    /\ UNCHANGED <<backend, summary, loader, chat>>
    /\ UNCHANGED <<phase, handlers, resource, toolsSeen, resourcesSeen, listCalls,
                   failedSinceList>>

CallToolTwice == CallToolWith(TwiceOutcomes)

NextTwice ==
    \/ ReadTwice
    \/ CallToolTwice
    \/ Eof

SpecTwice == InitTwice /\ [][NextTwice]_vars

(***************************************************************************)
(* FoodHelper (src/tools/food_tools.py), a client of the server: each of   *)
(* its calls starts a server process, opens a session and calls one tool.  *)
(***************************************************************************)
\* a dict literal of Python
PyDict(keys, vals) == JDict(keys, vals)

\* x in v, for a v that is a dict, a list or a str
PyIn(x, v) ==
    CASE v.t = "dict" -> \E i \in 1..Len(v.ks) : v.ks[i] = x
      [] v.t = "list" -> \E i \in 1..Len(v.c) : v.c[i] = JStr(x)
      [] v.t = "str" -> Contains(v.s, x)

\* FoodHelper.search_foods(query), the server answering its tool call with
\* r: the parsed text of the tool's one block,
\* or a dict with "error" when the session cannot be started or the text is
\* no JSON.  The server never sets isError and never answers without content
FoodHelper_search_foods(query, sessionOk, r) ==
    LET parsed == json_loads(r.content[1].text)
    IN IF ~sessionOk
       THEN PyDict(<<"error", "query">>, <<JStr("Connection closed"), JStr(query)>>)
       ELSE IF r.content = <<>>
       THEN PyDict(<<"error", "query">>, <<JStr("Search failed"), JStr(query)>>)
       ELSE IF ~parsed.ok
       THEN PyDict(<<"error", "query">>,
                   <<JStr("Expecting value: line 1 column 1 (char 0)"), JStr(query)>>)
       ELSE parsed.v

\* the text that is no JSON handed back as the payload
FoodHelper_classify_food_raw(image_path, sessionOk, r) ==
    LET parsed == json_loads(r.content[1].text)
    IN IF ~sessionOk
       THEN PyDict(<<"error", "image_path">>, <<JStr("Connection closed"), JStr(image_path)>>)
       ELSE IF r.content = <<>>
       THEN PyDict(<<"error", "image_path">>,
                   <<JStr("Classification failed"), JStr(image_path)>>)
       ELSE IF ~parsed.ok
       THEN JStr(r.content[1].text)
       ELSE parsed.v

\* FoodHelper.classify_food(image_path), the server answering with r: as
\* search_foods, with the tool classify and the key image_path
FoodHelper_classify_food(image_path, sessionOk, r) ==
    LET parsed == json_loads(r.content[1].text)
    IN IF ~sessionOk
       THEN PyDict(<<"error", "image_path">>, <<JStr("Connection closed"), JStr(image_path)>>)
       ELSE IF r.content = <<>>
       THEN PyDict(<<"error", "image_path">>,
                   <<JStr("Classification failed"), JStr(image_path)>>)
       ELSE IF ~parsed.ok
       THEN PyDict(<<"error", "image_path">>,
                   <<JStr("Expecting value: line 1 column 1 (char 0)"), JStr(image_path)>>)
       ELSE parsed.v

\* the dict of the except clause of food_summary_basic
SummaryCaught(label, msg) ==
    PyDict(<<"label", "error", "summary", "source">>,
           <<JStr(label), JStr(msg),
             JStr("Error retrieving nutritional information for " \o label \o ": " \o msg),
             JStr("food_helper")>>)

\* first_food.get("description", label), formatted
DescriptionOr(first_food, label) ==
    IF PyIn("description", first_food) THEN PyStr(get_value("description", first_food))
    ELSE label

\* food_summary_basic from the first food on: first_food.get("fdcId"), then
\* self.get_food_details(fdc_id, format="full").  FoodHelper defines no
\* get_food_details (its definition is commented out), so the attribute
\* lookup raises and lines 384-435 are never reached
SummaryOfFirst(label, first_food) ==
    IF first_food.t # "dict"
    THEN SummaryCaught(label, "'" \o PyTypeName(first_food) \o "' object has no attribute 'get'")
    ELSE IF ~Truthy(get_value("fdcId", first_food))
    THEN PyDict(<<"label", "food_name", "summary", "source">>,
                <<JStr(label), JStr(DescriptionOr(first_food, label)),
                  JStr("Found " \o DescriptionOr(first_food, label)
                       \o " but detailed nutrition data unavailable"),
                  JStr("food_helper")>>)
    ELSE SummaryCaught(label, "'FoodHelper' object has no attribute 'get_food_details'")

\* food_summary_basic from the search result on
SummaryOfSearch(label, sr) ==
    LET foods == get_value("foods", sr)
    IN IF sr.t \notin {"dict", "list", "str"}
       THEN SummaryCaught(label, "argument of type '" \o PyTypeName(sr) \o "' is not iterable")
       ELSE IF PyIn("error", sr)
       THEN PyDict(<<"label", "error", "summary", "source">>,
                   <<JStr(label), JStr("Food search failed"),
                     JStr("Unable to find nutritional information for " \o label),
                     JStr("food_helper")>>)
       ELSE IF sr.t # "dict"
       THEN SummaryCaught(label, "'" \o PyTypeName(sr) \o "' object has no attribute 'get'")
       ELSE IF ~Truthy(foods)
       THEN PyDict(<<"label", "error", "summary", "source">>,
                   <<JStr(label), JStr("No foods found"),
                     JStr("No nutritional data available for " \o label),
                     JStr("food_helper")>>)
       ELSE IF foods.t \in {"int", "bool"}
       THEN SummaryCaught(label, "object of type '" \o PyTypeName(foods) \o "' has no len()")
       ELSE IF foods.t = "dict" THEN SummaryCaught(label, "0")
       ELSE SummaryOfFirst(label, PyIter(foods)[1])

\* FoodHelper.food_summary_basic(label)
food_summary_basic(label, sessionOk, r) ==
    SummaryOfSearch(label, FoodHelper_search_foods(label, sessionOk, r))

\* the session of a helper call, as the server saw it
Session(sessionOk, name, args, o) ==
    LET r == handle_call_tool(name, args, o)
    IN IF sessionOk
       THEN [cur |-> [Request("call_tool", name, args, "") EXCEPT !.done = TRUE],
             outcome |-> IF r.calls = <<>> THEN NoOutcome ELSE o,
             result |-> r]
       ELSE [cur |-> Idle, outcome |-> NoOutcome, result |-> NoResult]

(***************************************************************************)
(* tools/food_summary.py: food_summary(label) makes the search and the     *)
(* detail lookup itself, through one session with the server.  Nutrient    *)
(* names are strings or None in the bodies modelled.                       *)
(***************************************************************************)
\* the dict of the except clause of food_summary
FsCaught(label, msg) ==
    PyDict(<<"label", "error", "summary", "source">>,
           <<JStr(label), JStr(msg),
             JStr("Error retrieving nutritional information for " \o label \o ": " \o msg),
             JStr("food_summary")>>)

\* a value of food_summary that came about without an exception
FsValue(v) == [raised |-> FALSE, msg |-> "", v |-> v]
\* an exception with the text msg
FsRaise(msg) == [raised |-> TRUE, msg |-> msg, v |-> JNull]

NoAttributeGet(v) == "'" \o PyTypeName(v) \o "' object has no attribute 'get'"

\* d.get(key, default) of a dict d
DictGet(d, key, default) == IF PyIn(key, d) THEN get_value(key, d) ELSE default

\* one round of the loop over details_data["foodNutrients"], lines 87-96
NutrientStep(nutrients, nutrient) ==
    LET inner == DictGet(nutrient, "nutrient", JDict(<<>>, <<>>))
        nutrient_name == DictGet(inner, "name", JStr(""))
        nutrient_value == DictGet(nutrient, "amount", JInt(0))
        nutrient_unit == DictGet(inner, "unitName", JStr(""))
    IN IF nutrient.t # "dict" THEN FsRaise(NoAttributeGet(nutrient))
       ELSE IF inner.t # "dict" THEN FsRaise(NoAttributeGet(inner))
       ELSE IF Truthy(nutrient_name) /\ Truthy(nutrient_value)
       THEN FsValue(DictSet(nutrients.ks, nutrients.c, nutrient_name.s,
                            JDict(<<"amount", "unit">>, <<nutrient_value, nutrient_unit>>), 1))
       ELSE FsValue(nutrients)

\* the loop of lines 87-96 from item i on
RECURSIVE NutrientLoop(_, _, _)
NutrientLoop(nutrients, items, i) ==
    IF i > Len(items) THEN FsValue(nutrients)
    ELSE LET r == NutrientStep(nutrients, items[i])
         IN IF r.raised THEN r ELSE NutrientLoop(r.v, items, i + 1)

\* lines 85-96: the nutrients of details_data
ExtractNutrients(details_data) ==
    LET listed == get_value("foodNutrients", details_data)
    IN IF details_data.t \notin {"dict", "list", "str"}
       THEN FsRaise("argument of type '" \o PyTypeName(details_data) \o "' is not iterable")
       ELSE IF ~PyIn("foodNutrients", details_data) THEN FsValue(JDict(<<>>, <<>>))
       ELSE IF details_data.t = "str" THEN FsRaise("string indices must be integers, not 'str'")
       ELSE IF details_data.t = "list"
       THEN FsRaise("list indices must be integers or slices, not str")
       ELSE IF ~PyIterable(listed)
       THEN FsRaise("'" \o PyTypeName(listed) \o "' object is not iterable")
       ELSE NutrientLoop(JDict(<<>>, <<>>), PyIter(listed), 1)

\* nutrients.get(name, {}).get("amount", "Unknown")
AmountOf(nutrients, name) ==
    DictGet(DictGet(nutrients, name, JDict(<<>>, <<>>)), "amount", JStr("Unknown"))

\* the character U+2022, which a string of the model cannot hold
Bullet == "(U+2022)"

\* one line of summary_text, empty when the amount is unknown
SummaryLine(title, amount, tail) ==
    IF amount # JStr("Unknown") THEN Bullet \o " " \o title \o ": " \o PyStr(amount) \o tail
    ELSE ""

IsSpace(c) == c \in {" ", "\n", "\r", "\t"}

\* str.strip()
RECURSIVE Strip(_)
Strip(x) ==
    IF x = "" THEN x
    ELSE IF IsSpace(Ch(x, 1)) THEN Strip(SubSeq(x, 2, Len(x)))
    ELSE IF IsSpace(Ch(x, Len(x))) THEN Strip(SubSeq(x, 1, Len(x) - 1))
    ELSE x

\* lines 98-122: the summary of the details
FsSummary(label, first_food, fdc_id, details_data, nutrients) ==
    LET food_name == DictGet(details_data, "description",
                             DictGet(first_food, "description", JStr(label)))
        calories == AmountOf(nutrients, "Energy")
        protein == AmountOf(nutrients, "Protein")
        carbs == AmountOf(nutrients, "Carbohydrate, by difference")
        fat == AmountOf(nutrients, "Total lipid (fat)")
        summary_text == "Nutritional information for " \o PyStr(food_name) \o ":\n"
                        \o SummaryLine("Calories", calories, " kcal per 100g\n")
                        \o SummaryLine("Protein", protein, "g per 100g\n")
                        \o SummaryLine("Carbohydrates", carbs, "g per 100g\n")
                        \o SummaryLine("Fat", fat, "g per 100g")
    IN PyDict(<<"label", "food_name", "fdc_id", "calories_per_100g", "protein_per_100g",
                "carbs_per_100g", "fat_per_100g", "nutrients", "summary", "source">>,
              <<JStr(label), food_name, fdc_id, calories, protein, carbs, fat, nutrients,
                JStr(Strip(summary_text)), JStr("USDA FoodData Central")>>)

\* lines 98-122 once the nutrients are extracted, or the except clause
FsOfNutrients(label, first_food, fdc_id, details_data, nutrients) ==
    IF nutrients.raised THEN FsCaught(label, nutrients.msg)
    ELSE IF details_data.t # "dict" THEN FsCaught(label, NoAttributeGet(details_data))
    ELSE FsSummary(label, first_food, fdc_id, details_data, nutrients.v)

\* a detail text that is no JSON summarised from the search result alone
FsOfDetailText_lenient(label, first_food, fdc_id, parsed) ==
    IF ~parsed.ok THEN FsSummary(label, first_food, fdc_id, first_food, JDict(<<>>, <<>>))
    ELSE FsOfNutrients(label, first_food, fdc_id, parsed.v, ExtractNutrients(parsed.v))

\* lines 82-122: food_summary from json.loads of the detail text on
FsOfDetailText(label, first_food, fdc_id, parsed) ==
    IF ~parsed.ok THEN FsCaught(label, "Expecting value: line 1 column 1 (char 0)")
    ELSE FsOfNutrients(label, first_food, fdc_id, parsed.v, ExtractNutrients(parsed.v))

\* lines 68-122: food_summary from the answer r to its get_food_details call
FsOfDetails(label, first_food, fdc_id, r) ==
    IF r.content = <<>>
    THEN PyDict(<<"label", "food_name", "summary", "source">>,
                <<JStr(label), DictGet(first_food, "description", JStr(label)),
                  JStr("Found " \o DescriptionOr(first_food, label)
                       \o " but failed to retrieve detailed nutrition information"),
                  JStr("food_summary")>>)
    ELSE FsOfDetailText(label, first_food, fdc_id, json_loads(r.content[1].text))

\* where the search leaves food_summary
FsEnd(value) == [details |-> FALSE, value |-> value, first_food |-> JNull, fdc_id |-> JNull]

\* lines 57-66: the first food and its id
FsOfFirst(label, first_food) ==
    IF first_food.t # "dict" THEN FsEnd(FsCaught(label, NoAttributeGet(first_food)))
    ELSE IF ~Truthy(get_value("fdcId", first_food))
    THEN FsEnd(PyDict(<<"label", "food_name", "summary", "source">>,
                      <<JStr(label), DictGet(first_food, "description", JStr(label)),
                        JStr("Found " \o DescriptionOr(first_food, label)
                             \o " but detailed nutrition data unavailable"),
                        JStr("food_summary")>>))
    ELSE [details |-> TRUE, value |-> JNull, first_food |-> first_food,
          fdc_id |-> get_value("fdcId", first_food)]

\* lines 48-57: the foods of the search
FsOfFoods(label, foods) ==
    IF ~Truthy(foods)
    THEN FsEnd(PyDict(<<"label", "error", "summary", "source">>,
                      <<JStr(label), JStr("No foods found"),
                        JStr("No nutritional data available for " \o label),
                        JStr("food_summary")>>))
    ELSE IF foods.t \in {"int", "bool"}
    THEN FsEnd(FsCaught(label, "object of type '" \o PyTypeName(foods) \o "' has no len()"))
    ELSE IF foods.t = "dict" THEN FsEnd(FsCaught(label, "0"))
    ELSE FsOfFirst(label, PyIter(foods)[1])

\* lines 46-48: json.loads of the search text and search_data.get("foods")
FsOfSearchText(label, parsed) ==
    IF ~parsed.ok THEN FsEnd(FsCaught(label, "Expecting value: line 1 column 1 (char 0)"))
    ELSE IF parsed.v.t # "dict" THEN FsEnd(FsCaught(label, NoAttributeGet(parsed.v)))
    ELSE FsOfFoods(label, get_value("foods", parsed.v))

\* lines 33-66: food_summary from the answer r to its search_foods call up
\* to the detail lookup
FsOfSearch(label, r) ==
    IF r.content = <<>>
    THEN FsEnd(PyDict(<<"label", "error", "summary", "source">>,
                      <<JStr(label), JStr("Food search failed"),
                        JStr("Unable to find nutritional information for " \o label),
                        JStr("food_summary")>>))
    ELSE FsOfSearchText(label, json_loads(r.content[1].text))

\* the arguments of the two tool calls of food_summary
FsSearchArgs(label) ==
    ("query" :> JStr(label)) @@ ("pageSize" :> JInt(5)) @@ ("pageNumber" :> JInt(1))
FsDetailArgs(fdc_id) == ("fdc_id" :> fdc_id) @@ ("format" :> JStr("full"))

\* what food_summary did: the value returned, whether the detail lookup was
\* made, and the session of the lookup
FsDone(value, details, lookup) == [value |-> value, details |-> details, lookup |-> lookup]

\* lines 68-122 with the session x2 of the detail lookup
FsAfterLookup(label, s1, x2) ==
    FsDone(FsOfDetails(label, s1.first_food, s1.fdc_id, x2.result), TRUE, x2)

\* lines 56-122 with the end s1 of the search
FsAfterSearch(label, s1, d) ==
    IF ~s1.details THEN FsDone(s1.value, FALSE, [cur |-> Idle])
    ELSE FsAfterLookup(label, s1, Session(TRUE, "get_food_details", FsDetailArgs(s1.fdc_id), d))

\* food_summary(label) of tools/food_summary.py, the server answering its
\* search with r1 and the backend answering the detail lookup with d
food_summary(label, sessionOk, r1, d) ==
    IF ~sessionOk THEN FsDone(FsCaught(label, "Connection closed"), FALSE, [cur |-> Idle])
    ELSE FsAfterSearch(label, FsOfSearch(label, r1), d)

Labels == {"pizza", "apple_pie", "an error"}

\* a foods list of one food
FoodsOf(food) == JDict(<<"totalHits", "foods">>, <<JInt(1), JList(<<food>>)>>)

\* search results of every shape food_summary_basic tells apart
HelperBodies ==
    { SearchBody,
      marshal_search_result(UsdaSearchBody),
      FoodsOf(JDict(<<"description">>, <<JStr("Apple, raw")>>)),
      FoodsOf(JDict(<<"fdcId", "description">>, <<JInt(0), JStr("Apple, raw")>>)),
      FoodsOf(JDict(<<"fdcId", "description">>, <<JNull, JNull>>)),
      FoodsOf(JInt(5)),
      FoodsOf(JStr("apple")),
      JDict(<<"totalHits", "foods">>, <<JInt(0), JList(<<>>)>>),
      JDict(<<"totalHits">>, <<JInt(0)>>),
      JDict(<<"foods">>, <<JInt(5)>>),
      JDict(<<"foods">>, <<JStr("apple")>>),
      JDict(<<"foods">>, <<JDict(<<"fdcId">>, <<JInt(1)>>)>>),
      ErrorBody,
      JList(<<>>),
      JList(<<JStr("error")>>),
      JStr("no error"),
      JStr("apple"),
      JInt(-12),
      JBool(TRUE),
      JNull }

HelperOutcomes ==
    {JsonResponse(200, CompactBody(b), b) : b \in HelperBodies}
    \cup {JsonResponse(500, CompactBody(ErrorBody), ErrorBody), RawResponse(200, "<html>"),
          ConnectError, ReadTimeout}

\* what the backend would answer a detail lookup
DetailBody == JDict(<<"fdcId", "description">>, <<JInt(1), JStr("Apple, raw")>>)
DetailOutcomes ==
    {JsonResponse(200, CompactBody(DetailBody), DetailBody),
     JsonResponse(404, CompactBody(ErrorBody), ErrorBody),
     ConnectError}

\* one entry of foodNutrients as the USDA API sends it
Nutrient(name, amount, unit) ==
    JDict(<<"nutrient", "amount">>,
          <<JDict(<<"name", "unitName">>, <<name, JStr(unit)>>), amount>>)

\* details with nutrients: one that counts, one without an amount, one
\* without a name, one given twice
FullDetailBody ==
    JDict(<<"fdcId", "description", "foodNutrients">>,
          <<JInt(1), JStr(" Apple, raw "),
            JList(<<Nutrient(JStr("Energy"), JInt(50), "kcal"),
                    Nutrient(JStr("Protein"), JInt(0), "g"),
                    Nutrient(JNull, JInt(3), "g"),
                    Nutrient(JStr("Energy"), JInt(52), "kcal"),
                    JDict(<<"amount">>, <<JInt(7)>>)>>)>>)

\* detail bodies of every shape food_summary tells apart
DetailBodies ==
    { DetailBody,
      FullDetailBody,
      JDict(<<"foodNutrients">>, <<JList(<<Nutrient(JStr("Total lipid (fat)"), JInt(1), "g")>>)>>),
      JDict(<<"foodNutrients">>, <<JInt(5)>>),
      JDict(<<"foodNutrients">>, <<JList(<<JInt(5)>>)>>),
      JDict(<<"foodNutrients">>, <<JList(<<JDict(<<"nutrient">>, <<JNull>>)>>)>>),
      JDict(<<"foodNutrients">>, <<JStr("")>>),
      ErrorBody,
      JList(<<>>),
      JList(<<JStr("foodNutrients")>>),
      JStr("no foodNutrients"),
      JStr("x"),
      JInt(5),
      JNull }

SummaryDetailOutcomes ==
    {JsonResponse(200, CompactBody(b), b) : b \in DetailBodies}
    \cup {JsonResponse(404, CompactBody(ErrorBody), ErrorBody), RawResponse(200, "<html>"),
          ConnectError}

InitHelper ==
    /\ phase = "Serving"
    /\ handlers = HandlerNames
    /\ cur = Idle
    /\ outcome = NoOutcome
    /\ result = NoResult
    /\ resource = NoResource
    /\ toolsSeen = {}
    /\ resourcesSeen = {}
    /\ listCalls = 0
    /\ failedSinceList = FALSE
    /\ prev = NoPrev
    /\ backend = NoBackend
    /\ summary = NoSummary
    /\ loader = NoLoader
    /\ chat = NoChat

\* the state a call of a FoodHelper method leaves: what it returned, and its
\* session x as the server saw it
HelperDone(fn, label, sessionOk, d, x, value) ==
    /\ summary' = [set |-> TRUE, fn |-> fn, label |-> label, sessionOk |-> sessionOk,
                   detail |-> d, value |-> value]
    /\ cur' = x.cur
    /\ outcome' = x.outcome
    /\ result' = x.result

FoodSummaryBasicWith(label, sessionOk, d, x) ==
    HelperDone("food_summary_basic", label, sessionOk, d, x,
               food_summary_basic(label, sessionOk, x.result))

\* one call of food_summary_basic: its search goes through the server to a
\* backend that answers o, and a detail lookup would be answered d
FoodSummaryBasic ==
    /\ ~summary.set
    /\ \E label \in Labels, sessionOk \in BOOLEAN, o \in HelperOutcomes, d \in DetailOutcomes :
          FoodSummaryBasicWith(label, sessionOk, d,
                               Session(sessionOk, "search_foods", "query" :> JStr(label), o))
    /\ UNCHANGED <<prev, backend, loader, chat>>
    /\ UNCHANGED <<phase, handlers, resource, toolsSeen, resourcesSeen, listCalls,
                   failedSinceList>>

ImagePaths == {"/img/pizza.jpg", "/does/not/exist.jpg"}

SearchFoodsWith(query, sessionOk, x) ==
    HelperDone("search_foods", query, sessionOk, NoOutcome, x,
               FoodHelper_search_foods(query, sessionOk, x.result))

\* one call of FoodHelper.search_foods
SearchFoods ==
    /\ ~summary.set
    /\ \E query \in Labels, sessionOk \in BOOLEAN, o \in HelperOutcomes :
          SearchFoodsWith(query, sessionOk,
                          Session(sessionOk, "search_foods", "query" :> JStr(query), o))
    /\ UNCHANGED <<prev, backend, loader, chat>>
    /\ UNCHANGED <<phase, handlers, resource, toolsSeen, resourcesSeen, listCalls,
                   failedSinceList>>

ClassifyFoodWith(image_path, sessionOk, x) ==
    HelperDone("classify_food", image_path, sessionOk, NoOutcome, x,
               FoodHelper_classify_food(image_path, sessionOk, x.result))

\* one call of FoodHelper.classify_food
ClassifyFood ==
    /\ ~summary.set
    /\ \E image_path \in ImagePaths, sessionOk \in BOOLEAN, o \in HelperOutcomes :
          ClassifyFoodWith(image_path, sessionOk,
                           Session(sessionOk, "classify", "image_path" :> JStr(image_path), o))
    /\ UNCHANGED <<prev, backend, loader, chat>>
    /\ UNCHANGED <<phase, handlers, resource, toolsSeen, resourcesSeen, listCalls,
                   failedSinceList>>

\* the state a call of food_summary leaves: prev keeps its search once the
\* detail lookup is made
FoodSummaryDone(label, sessionOk, d, x1, f) ==
    /\ summary' = [set |-> TRUE, fn |-> "food_summary", label |-> label,
                   sessionOk |-> sessionOk,
                   detail |-> IF f.details THEN d ELSE NoOutcome,
                   value |-> f.value]
    /\ prev' = IF f.details
               THEN [set |-> TRUE, req |-> x1.cur, outcome |-> x1.outcome, result |-> x1.result]
               ELSE NoPrev
    /\ cur' = IF f.details THEN f.lookup.cur ELSE x1.cur
    /\ outcome' = IF f.details THEN f.lookup.outcome ELSE x1.outcome
    /\ result' = IF f.details THEN f.lookup.result ELSE x1.result

\* food_summary run through the session x1 of its search
FoodSummaryWith(label, sessionOk, d, x1) ==
    FoodSummaryDone(label, sessionOk, d, x1, food_summary(label, sessionOk, x1.result, d))

\* one call of food_summary of tools/food_summary.py
FoodSummary ==
    /\ ~summary.set
    /\ \E label \in Labels, sessionOk \in BOOLEAN, o \in HelperOutcomes,
          d \in SummaryDetailOutcomes :
          FoodSummaryWith(label, sessionOk, d,
                          Session(sessionOk, "search_foods", FsSearchArgs(label), o))
    /\ UNCHANGED <<backend, loader, chat>>
    /\ UNCHANGED <<phase, handlers, resource, toolsSeen, resourcesSeen, listCalls,
                   failedSinceList>>

NextHelper ==
    \/ FoodSummaryBasic
    \/ FoodSummary
    \/ SearchFoods
    \/ ClassifyFood

SpecHelper == InitHelper /\ [][NextHelper]_vars

(***************************************************************************)
(* The LLM tool loops: FoodHelper.food_summary_with_openai of               *)
(* tools/food_tools.py and chat_with_openai of tools/food_summary_cli.py.  *)
(* The chat model is an input: each request is answered by a completion it *)
(* chooses, or fails.                                                      *)
(***************************************************************************)
\* a tool call of a response; arguments is the text the chat model wrote
ToolCall(id, name, arguments) == [id |-> id, name |-> name, arguments |-> arguments]

\* an entry of messages; content is a str or None
Message(role, content, tool_calls, tool_call_id) ==
    [role |-> role, content |-> content, tool_calls |-> tool_calls,
     tool_call_id |-> tool_call_id]

\* what client.chat.completions.create hands back; no tool calls is None
Completion(content, tool_calls) ==
    [raised |-> FALSE, content |-> content, tool_calls |-> tool_calls]
\* client.chat.completions.create raised
APIError == [raised |-> TRUE, content |-> JNull, tool_calls |-> <<>>]

\* the ids the API gives the tool calls of its responses: no two alike
CallId(i, k) == "call_" \o IntToStr(i) \o "_" \o IntToStr(k)

\* a response that asks for one tool
OneCall(i) ==
    Completion(JNull, <<ToolCall(CallId(i, 1), "search_foods", "{\"query\": \"apple\"}")>>)

\* a response that asks for two: get_food_details is known to
\* handle_tool_call only, classify_food to _handle_openai_tool_call only
Batch(i) ==
    Completion(JStr("Looking it up."),
               <<ToolCall(CallId(i, 1), "get_food_details", "{\"fdc_id\": 1}"),
                 ToolCall(CallId(i, 2), "classify_food",
                          "{\"image_path\": \"/img/pizza.jpg\"}")>>)

\* responses whose tool calls cannot all be handled: arguments that are no
\* JSON for a function neither loop knows, after a call that can be
\* answered; a keyword the function does not take; no keyword at all
Unhandled(i) ==
    { Completion(JNull,
                 <<ToolCall(CallId(i, 1), "search_foods", "{\"query\": \"apple\"}"),
                   ToolCall(CallId(i, 2), "lookup", "apple"),
                   ToolCall(CallId(i, 3), "search_foods", "{\"query\": \"pear\"}")>>),
      Completion(JNull, <<ToolCall(CallId(i, 1), "search_foods", "{\"q\": \"apple\"}")>>),
      Completion(JNull, <<ToolCall(CallId(i, 1), "search_foods", "{}")>>),
      Completion(JNull, <<ToolCall(CallId(i, 1), "lookup", "{}"),
                          ToolCall(CallId(i, 2), "search_foods", "[\"apple\"]")>>) }

\* responses without tool calls: a text, None, the empty text
Final ==
    { Completion(JStr("Apple, raw: 52 kcal per 100g."), <<>>),
      Completion(JNull, <<>>),
      Completion(JStr(""), <<>>) }

\* the i-th answer of the API
Completions(i) == {OneCall(i), Batch(i), APIError} \cup Unhandled(i) \cup Final

\* ', '.join(food_items)
RECURSIVE JoinComma(_, _)
JoinComma(items, i) ==
    IF i > Len(items) THEN ""
    ELSE (IF i > 1 THEN ", " ELSE "") \o items[i] \o JoinComma(items, i + 1)

FoodItemLists == {<<"apple">>, <<"apple", "banana">>}

\* the two messages a loop starts with
InitialMessages(fn, food_items) ==
    << Message("system",
               JStr("You are a senior nutrition expert. Use the available tools to search for and analyze "
                    \o "food items. For each food item provided, extract and summarize clearly with sections: "
                    \o "Nutrients, Portions, Other Information, Ingredients. Be concise and practical. "
                    \o "If a section is unavailable, state 'Not available'."
                    \o (IF fn = "food_summary_with_openai"
                        THEN " Focus on the most important "
                             \o "nutritional information like calories, protein, carbohydrates, fats, vitamins, and minerals."
                        ELSE "")),
               <<>>, ""),
       Message("user",
               JStr("Please analyze the nutrition information for these food items: "
                    \o JoinComma(food_items, 1)),
               <<>>, "") >>

\* the function a tool call is routed to by its name: the function's
\* qualified name, the server's tool it calls, its one required parameter,
\* its optional ones
RouteTo(qualname, tool, required, optional) ==
    [known |-> TRUE, qualname |-> qualname, tool |-> tool, required |-> required,
     optional |-> optional]
NoRoute ==
    [known |-> FALSE, qualname |-> "", tool |-> "", required |-> "", optional |-> {}]

\* the if/elif chain of _handle_openai_tool_call
HelperRoute(function_name) ==
    CASE function_name = "search_foods" ->
            RouteTo("FoodHelper.search_foods", "search_foods", "query", {})
      [] function_name = "classify_food" ->
            RouteTo("FoodHelper.classify_food", "classify", "image_path", {})
      [] OTHER -> NoRoute

\* the if/elif chain of handle_tool_call
CliRoute(function_name) ==
    CASE function_name = "search_foods" ->
            RouteTo("search_foods_tool", "search_foods", "query", {})
      [] function_name = "get_food_details" ->
            RouteTo("get_food_details_tool", "get_food_details", "fdc_id", {"format"})
      [] function_name = "get_multiple_foods" ->
            RouteTo("get_multiple_foods_tool", "get_multiple_foods", "fdc_ids", {"format"})
      [] function_name = "classify" ->
            RouteTo("classify_food_tool", "classify", "image_path", {})
      [] OTHER -> NoRoute

\* the TypeError of f(**arguments) for a dict of arguments, "" when the
\* call binds
BindError(route, arguments) ==
    IF \E i \in 1..Len(arguments.ks) :
          arguments.ks[i] \notin {route.required} \cup route.optional
    THEN route.qualname \o "() got an unexpected keyword argument '"
         \o arguments.ks[CHOOSE i \in 1..Len(arguments.ks) :
                            /\ arguments.ks[i] \notin {route.required} \cup route.optional
                            /\ \A j \in 1..(i - 1) :
                                  arguments.ks[j] \in {route.required} \cup route.optional]
         \o "'"
    ELSE IF ~PyIn(route.required, arguments)
    THEN route.qualname \o "() missing 1 required positional argument: '"
         \o route.required \o "'"
    ELSE ""

\* the arguments of session.call_tool
ToolArguments(route, arguments) ==
    (route.required :> get_value(route.required, arguments))
    @@ (IF "format" \in route.optional
        THEN "format" :> DictGet(arguments, "format", JStr("full"))
        ELSE EmptyArgs)

\* what handling one tool call comes to: the text for the tool message or an
\* exception, and the session with the server, if one was opened
ToolReturned(text, called, x) ==
    [raised |-> FALSE, msg |-> "", text |-> text, called |-> called, x |-> x]
ToolRaised(msg, called, x) ==
    [raised |-> TRUE, msg |-> msg, text |-> "", called |-> called, x |-> x]

NoSession == [cur |-> Idle, outcome |-> NoOutcome, result |-> NoResult]

\* result = await self.search_foods(**arguments) or self.classify_food(...),
\* then json.dumps(result); queries and paths are strings
HelperCall(route, arguments, sessionOk, x) ==
    ToolReturned(
        json_dumps(IF route.tool = "search_foods"
                   THEN FoodHelper_search_foods(get_value("query", arguments).s,
                                                sessionOk, x.result)
                   ELSE FoodHelper_classify_food(get_value("image_path", arguments).s,
                                                 sessionOk, x.result)),
        TRUE, x)

\* the "error" of a tool wrapper of food_summary_cli.py whose result has no
\* content
CliFailed(tool) ==
    CASE tool = "search_foods" -> "Search failed"
      [] tool = "get_food_details" -> "Food details fetch failed"
      [] tool = "get_multiple_foods" -> "Multiple foods fetch failed"
      [] tool = "classify" -> "Classification failed"

\* search_foods_tool, get_food_details_tool, get_multiple_foods_tool and
\* classify_food_tool: stdio_client and session.initialize are outside the
\* try, so a session that cannot be opened raises
CliCall(route, sessionOk, x) ==
    IF ~sessionOk THEN ToolRaised("Connection closed", TRUE, x)
    ELSE IF x.result.content = <<>>
    THEN ToolReturned(json_dumps(PyDict(<<"error">>, <<JStr(CliFailed(route.tool))>>)),
                      TRUE, x)
    ELSE ToolReturned(x.result.content[1].text, TRUE, x)

\* a tool call whose arguments json.loads has read: the name is looked at
\* only then
Routed(cli, function_name, route, parsed, sessionOk, o) ==
    IF ~parsed.ok
    THEN ToolRaised("Expecting value: line 1 column 1 (char 0)", FALSE, NoSession)
    ELSE IF ~route.known
    THEN ToolReturned(json_dumps(PyDict(<<"error">>,
                                        <<JStr("Unknown function: " \o function_name)>>)),
                      FALSE, NoSession)
    ELSE IF parsed.v.t # "dict"
    THEN ToolRaised(route.qualname \o "() argument after ** must be a mapping, not "
                    \o PyTypeName(parsed.v), FALSE, NoSession)
    ELSE IF BindError(route, parsed.v) # ""
    THEN ToolRaised(BindError(route, parsed.v), FALSE, NoSession)
    ELSE IF cli
    THEN CliCall(route, sessionOk,
                 Session(sessionOk, route.tool, ToolArguments(route, parsed.v), o))
    ELSE HelperCall(route, parsed.v, sessionOk,
                    Session(sessionOk, route.tool, ToolArguments(route, parsed.v), o))

\* FoodHelper._handle_openai_tool_call(tool_call)
_handle_openai_tool_call(tool_call, sessionOk, o) ==
    Routed(FALSE, tool_call.name, HelperRoute(tool_call.name),
           json_loads(tool_call.arguments), sessionOk, o)

\* handle_tool_call(tool_call) of food_summary_cli.py
handle_tool_call(tool_call, sessionOk, o) ==
    Routed(TRUE, tool_call.name, CliRoute(tool_call.name),
           json_loads(tool_call.arguments), sessionOk, o)

\* the loops
Loops == {"food_summary_with_openai", "chat_with_openai"}

\* what a loop finds: the openai package and OPENAI_API_KEY, no package, no
\* key.  food_summary(argv) calls chat_with_openai only when the key is set
LoopEnvs(fn) ==
    IF fn = "food_summary_with_openai" THEN {"ok", "no_package", "no_key"}
    ELSE {"ok", "no_package"}

\* the loop is over: it returned chat.value or let an exception out
ChatOver == chat.pc \in {"returned", "raised"}

\* return value
ChatReturn(value) == [chat EXCEPT !.pc = "returned", !.value = value]

\* an exception with the text msg inside the while loop: the try of
\* food_summary_with_openai turns it into a return, chat_with_openai has no
\* try
ChatExcept(c, msg) ==
    IF c.fn = "food_summary_with_openai"
    THEN [c EXCEPT !.pc = "returned", !.value = "Error during OpenAI analysis: " \o msg]
    ELSE [c EXCEPT !.pc = "raised", !.value = msg]

InitChat ==
    /\ phase = "Serving"
    /\ handlers = HandlerNames
    /\ cur = Idle
    /\ outcome = NoOutcome
    /\ result = NoResult
    /\ resource = NoResource
    /\ toolsSeen = {}
    /\ resourcesSeen = {}
    /\ listCalls = 0
    /\ failedSinceList = FALSE
    /\ prev = NoPrev
    /\ backend = NoBackend
    /\ summary = NoSummary
    /\ loader = NoLoader
    /\ \E fn \in Loops, sessionOk \in BOOLEAN,
          o \in {JsonResponse(200, CompactBody(SearchBody), SearchBody), ConnectError} :
          \E env \in LoopEnvs(fn) :
             chat = [NoChat EXCEPT !.fn = fn, !.env = env, !.sessionOk = sessionOk,
                                   !.o = o, !.pc = "enter"]

\* the server is left as it is
ChatOnly ==
    UNCHANGED <<phase, handlers, resource, toolsSeen, resourcesSeen, listCalls,
                failedSinceList, prev, backend, summary, loader>>

\* the lines before the while loop: the import, the key, the first messages
ChatEnter ==
    /\ chat.pc = "enter"
    /\ \E food_items \in FoodItemLists :
          chat' =
             IF chat.env = "no_package"
             THEN IF chat.fn = "food_summary_with_openai"
                  THEN ChatReturn("Error: OpenAI package not installed. "
                                  \o "Please install with 'pip install openai'")
                  ELSE [chat EXCEPT !.pc = "raised", !.value = "No module named 'openai'"]
             ELSE IF chat.env = "no_key"
             THEN ChatReturn("Error: OPENAI_API_KEY not set in environment variables")
             ELSE [chat EXCEPT !.pc = "loop",
                               !.messages = InitialMessages(chat.fn, food_items)]
    /\ UNCHANGED <<cur, outcome, result>>
    /\ ChatOnly

\* while iteration < max_iterations, off by one
LoopContinues_inclusive(iteration) == iteration <= max_iterations

\* while iteration < max_iterations
LoopContinues(iteration) == iteration < max_iterations

\* the loop with the response c in hand: the assistant message is appended,
\* then a response without tool calls ends the loop
Responded(c, response) ==
    IF response.raised THEN ChatExcept(c, "Connection error.")
    ELSE IF response.tool_calls = <<>>
    THEN [c EXCEPT !.pc = "returned",
                   !.messages = Append(@, Message("assistant", response.content, <<>>, "")),
                   !.message = [content |-> response.content, tool_calls |-> <<>>],
                   !.value = IF Truthy(response.content) THEN response.content.s
                             ELSE "No response generated"]
    ELSE [c EXCEPT !.pc = "tools",
                   !.messages = Append(@, Message("assistant", response.content,
                                                  response.tool_calls, "")),
                   !.message = [content |-> response.content,
                                tool_calls |-> response.tool_calls],
                   !.batches = @ + (IF Len(response.tool_calls) > 1 THEN 1 ELSE 0),
                   !.next = 1]

\* one round of the while loop up to the for loop: iteration += 1, the
\* request with the messages so far, the response
ChatRequest ==
    /\ chat.pc = "loop"
    /\ LoopContinues(chat.iteration)
    /\ \E response \in Completions(chat.iteration + 1) :
          /\ Len(response.tool_calls) > 1 => chat.batches < MaxBatches
          /\ chat' = Responded([chat EXCEPT !.iteration = @ + 1, !.requests = @ + 1,
                                            !.sent = Len(chat.messages)],
                               response)
    /\ UNCHANGED <<cur, outcome, result>>
    /\ ChatOnly

\* the tool message without the id of its call
ToolMessage_anonymous(tool_call, tool_result) ==
    Message("tool", JStr(tool_result), <<>>, "")

\* {"role": "tool", "content": tool_result, "tool_call_id": tool_call.id}
ToolMessage(tool_call, tool_result) ==
    Message("tool", JStr(tool_result), <<>>, tool_call.id)

\* the loop after one tool call was handled with h
ToolHandled(tool_call, h) ==
    /\ chat' =
          IF h.raised THEN ChatExcept(chat, h.msg)
          ELSE [chat EXCEPT !.messages = Append(@, ToolMessage(tool_call, h.text)),
                            !.next = @ + 1,
                            !.pc = IF chat.next = Len(chat.message.tool_calls)
                                   THEN "loop" ELSE "tools"]
    /\ cur' = IF h.called /\ chat.sessionOk THEN h.x.cur ELSE cur
    /\ outcome' = IF h.called /\ chat.sessionOk THEN h.x.outcome ELSE outcome
    /\ result' = IF h.called /\ chat.sessionOk THEN h.x.result ELSE result

\* one round of the for loop over message.tool_calls
ChatToolCall ==
    /\ chat.pc = "tools"
    /\ \E h \in {IF chat.fn = "food_summary_with_openai"
                  THEN _handle_openai_tool_call(chat.message.tool_calls[chat.next],
                                                chat.sessionOk, chat.o)
                  ELSE handle_tool_call(chat.message.tool_calls[chat.next],
                                        chat.sessionOk, chat.o)} :
          ToolHandled(chat.message.tool_calls[chat.next], h)
    /\ ChatOnly

\* the while loop ran out
ChatMaxIterations ==
    /\ chat.pc = "loop"
    /\ ~LoopContinues(chat.iteration)
    /\ chat' = ChatReturn("Maximum iterations reached. Analysis may be incomplete.")
    /\ UNCHANGED <<cur, outcome, result>>
    /\ ChatOnly

NextChat ==
    \/ ChatEnter
    \/ ChatRequest
    \/ ChatToolCall
    \/ ChatMaxIterations

SpecChat == InitChat /\ [][NextChat]_vars

\* the request in cur is an answered CallTool
Answered == cur.op = "call_tool" /\ cur.done

\* the answer is exactly one text block
OneTextBlock(r) == ~r.raised /\ Len(r.content) = 1 /\ r.content[1].type = "text"

TypeOK ==
    /\ phase \in {"Uninitialized", "Ready", "Serving", "Closed"}
    /\ handlers \subseteq HandlerNames
    /\ cur \in Requests \cup {Idle} \cup {[r EXCEPT !.done = TRUE] : r \in Requests}
    /\ listCalls \in 0..MaxListCalls
    /\ failedSinceList \in BOOLEAN

\* the text of the one block of the answer
Text == result.content[1].text

\* the key each handler reads with args[...]
RequiredKey(name) ==
    CASE name = "search_foods" -> "query"
      [] name = "get_food_details" -> "fdc_id"
      [] name = "get_multiple_foods" -> "fdc_ids"
      [] name = "classify" -> "image_path"

\* the upstream call of the answered request got no 2xx response
UpstreamFailed ==
    /\ Answered
    /\ result.calls # <<>>
    /\ \/ outcome.kind \in {"connect_error", "timeout"}
       \/ outcome.kind = "response" /\ ~is_success(outcome.status)

(***************************************************************************)
(* C1: CallTool is total.  Whatever the tool name, the arguments (keys     *)
(* missing, values of the wrong type) and the backend's outcome (2xx,      *)
(* non-2xx, connection failure, timeout, body that is no JSON),            *)
(* handle_call_tool returns and lets no exception out.                     *)
(***************************************************************************)
C1_CallToolTotal == Answered => ~result.raised

\* a 2xx response whose body is no JSON was answered
C1_Witness ==
    /\ Answered
    /\ outcome.kind = "response" /\ is_success(outcome.status) /\ ~json_loads(outcome.body).ok
    /\ ~result.raised

(***************************************************************************)
(* C2: every answer of CallTool, on every path of every handler and for    *)
(* an unknown name, is a sequence of exactly one block of kind text.       *)
(***************************************************************************)
C2_ExactlyOneTextBlock ==
    Answered => (Len(result.content) = 1 /\ result.content[1].type = "text")

\* a successful get_food_details whose body is an empty JSON list
C2_Witness ==
    /\ Answered
    /\ cur.name = "get_food_details"
    /\ outcome.isJson /\ is_success(outcome.status) /\ outcome.json = JList(<<>>)
    /\ Len(result.content) = 1

C5_SearchRoundTrip ==
    (/\ Answered
     /\ cur.name = "search_foods"
     /\ outcome.kind = "response" /\ is_success(outcome.status) /\ outcome.isJson)
        => /\ OneTextBlock(result)
           /\ json_loads(Text).ok
           /\ json_loads(Text).v = outcome.json

\* the example of the spec, sent in compact form and returned re-encoded
C5_Witness ==
    /\ Answered
    /\ cur.name = "search_foods"
    /\ cur.args = ("query" :> JStr("apple"))
    /\ outcome.status = 200
    /\ outcome.json = SearchBody
    /\ outcome.body = "{\"totalHits\":1,\"foods\":[{\"fdcId\":1,\"description\":\"Apple, raw\"}]}"
    /\ Text = "{\"totalHits\": 1, \"foods\": [{\"fdcId\": 1, \"description\": \"Apple, raw\"}]}"

(***************************************************************************)
(* C6: when the one upstream call of a handler ends in a non-2xx status, a *)
(* connection failure or a timeout, the answer is one text block starting  *)
(* with "Error:", a non-2xx answer names its status, nothing is raised and *)
(* the body of a non-2xx response is never returned as the payload.        *)
(***************************************************************************)
C6_UpstreamFailureIsError ==
    UpstreamFailed
        => /\ OneTextBlock(result)
           /\ StartsWith(Text, "Error:")
           /\ outcome.kind = "response" => Contains(Text, IntToStr(outcome.status))
           /\ outcome.isJson => Text # json_dumps(outcome.json)

\* the backend answered the search with 500 and a JSON error body
C6_Witness ==
    /\ UpstreamFailed
    /\ cur.name = "search_foods"
    /\ outcome.status = 500 /\ outcome.isJson
    /\ Text = "Error: Server error '500' for url 'http://localhost:8004/api/search'"

(***************************************************************************)
(* C7: classify with an image_path that names no readable file answers     *)
(* one "Error:" text block that names the file problem, and the server     *)
(* goes on serving.                                                        *)
(***************************************************************************)
C7_ClassifyMissingFile ==
    (/\ Answered
     /\ cur.name = "classify"
     /\ HasKey(cur.args, "image_path")
     /\ cur.args["image_path"].t = "str"
     /\ cur.args["image_path"].s \notin ReadablePaths)
        => /\ OneTextBlock(result)
           /\ StartsWith(Text, "Error:")
           /\ Contains(Text, "No such file or directory")
           /\ Contains(Text, cur.args["image_path"].s)
           /\ phase = "Serving"

\* the call of the spec's example was answered
C7_Witness ==
    /\ Answered
    /\ cur.name = "classify"
    /\ cur.args = ("image_path" :> JStr("/does/not/exist.jpg"))
    /\ Text = "Error: [Errno 2] No such file or directory: '/does/not/exist.jpg'"
    /\ phase = "Serving"

(***************************************************************************)
(* C8: a CallTool whose arguments lack the key its handler requires        *)
(* (query, fdc_id, fdc_ids, image_path) answers one "Error:" text block,   *)
(* raises nothing and makes no upstream call.                              *)
(***************************************************************************)
C8_MissingKeyIsError ==
    (/\ Answered
     /\ cur.name \in Dispatched
     /\ ~HasKey(cur.args, RequiredKey(cur.name)))
        => /\ OneTextBlock(result)
           /\ StartsWith(Text, "Error:")
           /\ result.calls = <<>>
           /\ outcome = NoOutcome

\* search_foods was called with the arguments of another tool
C8_Witness ==
    /\ Answered
    /\ cur.name = "search_foods"
    /\ cur.args = ("fdc_id" :> JInt(2344719))
    /\ Text = "Error: 'query'"
    /\ result.calls = <<>>

(***************************************************************************)
(* C9: ReadResource on a URI other than food://search and food://details   *)
(* raises the unknown-resource error instead of returning content;         *)
(* ReadResource on either known URI returns a string and never fails.      *)
(***************************************************************************)
C9_ReadResource ==
    (cur.op = "read_resource" /\ cur.done)
        => IF cur.uri \in {"food://search", "food://details"}
           THEN ~resource.raised /\ resource.value # ""
           ELSE /\ resource.raised
                /\ resource.exc.type = "ValueError"
                /\ StartsWith(resource.exc.msg, "Unknown resource:")

\* an unregistered URI was read
C9_Witness ==
    /\ cur.op = "read_resource" /\ cur.done
    /\ cur.uri = "food://unknown"
    /\ resource.raised
    /\ resource.exc.msg = "Unknown resource: food://unknown"

\* open(image_path) succeeds
FileOpens(args) == open(args["image_path"]) = NoExc

(***************************************************************************)
(* C10 as stated: an invocation makes at most one upstream call, and       *)
(* exactly one when the name is dispatched, the required argument is       *)
(* present and, for classify, the file opens.                              *)
(***************************************************************************)
C10_OneAttempt ==
    Answered =>
        /\ Len(result.calls) <= 1
        /\ (/\ cur.name \in Dispatched
            /\ HasKey(cur.args, RequiredKey(cur.name))
            /\ cur.name = "classify" => FileOpens(cur.args))
              => Len(result.calls) = 1

(***************************************************************************)
(* C10 amended: an invocation makes at most one call of the HTTP client,   *)
(* and exactly one when the name is dispatched, the required argument is   *)
(* present, for get_multiple_foods fdc_ids is iterable and, for classify,  *)
(* the file opens; a failed call is never followed by a second one.        *)
(***************************************************************************)
C10_OneAttemptIterable ==
    Answered =>
        /\ Len(result.calls) <= 1
        /\ (/\ cur.name \in Dispatched
            /\ HasKey(cur.args, RequiredKey(cur.name))
            /\ cur.name = "get_multiple_foods" => PyIterable(cur.args["fdc_ids"])
            /\ cur.name = "classify" => FileOpens(cur.args))
              => Len(result.calls) = 1

\* the one call of get_multiple_foods timed out and was not repeated
C10_Witness ==
    /\ Answered
    /\ cur.name = "get_multiple_foods"
    /\ HasKey(cur.args, "fdc_ids") /\ cur.args["fdc_ids"].t = "list"
    /\ outcome.kind = "timeout"
    /\ Len(result.calls) = 1
    /\ Text = "Error: "

\* the backend was asked directly, with GET, for path
AskedDirectly(path) ==
    /\ cur = Idle
    /\ backend.set
    /\ backend.req.method = "GET"
    /\ UrlPath(backend.req.url) = path

\* the answer of the backend carries a JSON object with the key k
AnswerHasKey(k) ==
    /\ backend.resp.isJson
    /\ backend.resp.json.t = "dict"
    /\ \E i \in 1..Len(backend.resp.json.ks) : backend.resp.json.ks[i] = k

\* the answered CallTool ended in a Success payload
Success == Answered /\ OneTextBlock(result) /\ ~StartsWith(Text, "Error: ")

(***************************************************************************)
(* C12: with the USDA key set and the USDA API answering, the backend      *)
(* answers GET /api/search?food_name=<non-empty> with 2xx and the search   *)
(* result, and search_foods with a non-empty query, sent to this backend,  *)
(* ends in a Success payload.                                              *)
(***************************************************************************)
C12_FoodNameAccepted ==
    /\ (/\ AskedDirectly("/api/search")
        /\ DOMAIN RequestArgs(backend.req) = {"food_name"}
        /\ RequestArgs(backend.req)["food_name"] # ""
        /\ UsdaOk(backend.env))
          => (is_success(backend.resp.status) /\ AnswerHasKey("foods"))
    /\ (/\ Answered
        /\ cur.name = "search_foods"
        /\ HasKey(cur.args, "query")
        /\ cur.args["query"].t = "str" /\ cur.args["query"].s # ""
        /\ UsdaOk(backend.env))
          => (is_success(backend.resp.status) /\ Success)

(***************************************************************************)
(* C13: the backend answers POST /api/classify carrying the image in the   *)
(* multipart field file with {predicted_class, confidence, success}, and   *)
(* classify with a readable image, sent to this backend, ends in a Success *)
(* payload.                                                                *)
(***************************************************************************)
C13_MultipartAccepted ==
    (/\ Answered
     /\ cur.name = "classify"
     /\ HasKey(cur.args, "image_path")
     /\ FileOpens(cur.args)
     /\ backend.env.classifier = "loaded")
        => /\ backend.req.method = "POST" /\ backend.req.file = cur.args["image_path"].s
           /\ is_success(backend.resp.status)
           /\ AnswerHasKey("predicted_class")
           /\ Success

\* the one request the USDA API gets failed, or the key is not set
UsdaFailed(env) ==
    \/ ~env.key
    \/ env.usda.kind # "response"
    \/ ~is_success(env.usda.status)

(***************************************************************************)
(* C17: GET /api/search answers 400, without a request to the USDA API,    *)
(* when query is missing or empty, and answers 500 with an error object    *)
(* when the request to the USDA API fails or the key is not set.           *)
(***************************************************************************)
C17_SearchErrors ==
    AskedDirectly("/api/search") =>
        LET a == RequestArgs(backend.req)
        IN /\ ("query" \notin DOMAIN a \/ a["query"] = "")
                => (backend.resp.status = 400 /\ backend.usda = <<>>)
           /\ ("query" \in DOMAIN a /\ a["query"] # "" /\ search_parser(a).ok
               /\ UsdaFailed(backend.env))
                => (backend.resp.status = 500 /\ AnswerHasKey("error"))

\* the method and path of the one endpoint the handler of a tool calls
Endpoint(name) ==
    CASE name = "search_foods" -> <<"GET", "/api/search">>
      [] name = "get_food_details" -> <<"GET", "/api/food/">>
      [] name = "get_multiple_foods" -> <<"GET", "/api/foods">>
      [] name = "classify" -> <<"POST", "/api/classify">>

(***************************************************************************)
(* C14: descriptors and handlers are one to one by name.  A call to a      *)
(* name ListTools advertises never answers "Error: Unknown tool"; it runs  *)
(* the handler of that name (it misses that handler's key when the key is  *)
(* absent, and calls that handler's endpoint otherwise), and no two        *)
(* advertised names share a handler.                                       *)
(***************************************************************************)
C14_DescriptorsAndHandlers ==
    (Answered /\ cur.name \in Registry) =>
        /\ OneTextBlock(result)
        /\ ~StartsWith(Text, "Error: Unknown tool")
        /\ IF ~HasKey(cur.args, RequiredKey(cur.name))
           THEN Text = "Error: '" \o RequiredKey(cur.name) \o "'" /\ result.calls = <<>>
           ELSE result.calls # <<>> =>
                   /\ result.calls[1].method = Endpoint(cur.name)[1]
                   /\ UrlPath(result.calls[1].url) = Endpoint(cur.name)[2]
        /\ \A other \in Registry \ {cur.name} :
              /\ Endpoint(other) # Endpoint(cur.name)
              /\ RequiredKey(other) # RequiredKey(cur.name)

\* classify, an advertised name, reached the classify endpoint
C14_Witness ==
    /\ Answered
    /\ cur.name = "classify"
    /\ cur.name \in Registry
    /\ result.calls = <<HttpRequest("POST", BACKEND_URL \o "/api/classify", <<>>, "/img/pizza.jpg")>>
    /\ is_success(outcome.status)
    /\ Text = json_dumps(ClassifyBody)

\* cur is answered and is the same call, name and arguments, as prev
SameCallAgain ==
    /\ Answered
    /\ prev.set
    /\ prev.req.name = cur.name
    /\ prev.req.args = cur.args

\* the upstream call of r ended in a 2xx JSON body
GotJson(o) == o.kind = "response" /\ is_success(o.status) /\ o.isJson

(***************************************************************************)
(* C15: no handler caches.  When the same call, name and arguments, is     *)
(* made twice, the second invocation sends the request the first one sent, *)
(* and its answer is made of the backend's second answer: the second body  *)
(* when that is a 2xx JSON body, an error when the second call fails,      *)
(* whatever the first answer was.                                          *)
(***************************************************************************)
C15_NoCache ==
    SameCallAgain =>
        /\ result.calls = prev.result.calls
        /\ result.calls # <<>> =>
              /\ OneTextBlock(result)
              /\ GotJson(outcome) => Text = json_dumps(outcome.json)
              /\ ~GotJson(outcome) => StartsWith(Text, "Error: ")
              /\ (GotJson(outcome) /\ GotJson(prev.outcome) /\ outcome.json # prev.outcome.json)
                    => result # prev.result

\* the same search succeeded first and met a 500 the second time
C15_Witness ==
    /\ SameCallAgain
    /\ cur.name = "search_foods"
    /\ prev.outcome.status = 200 /\ prev.result.content[1].text = json_dumps(SearchBody)
    /\ outcome.status = 500
    /\ Len(result.calls) = 1
    /\ Text = "Error: Server error '500' for url 'http://localhost:8004/api/search'"

\* the call in cur is one its handler sends upstream
Sendable ==
    /\ cur.name \in Dispatched
    /\ HasKey(cur.args, RequiredKey(cur.name))
    /\ cur.name = "get_multiple_foods" => PyIterable(cur.args["fdc_ids"])
    /\ cur.name = "classify" => FileOpens(cur.args)

\* the call answered after a failed call is answered as a first call is
AnsweredAsFirst ==
    (Answered /\ prev.set /\ IsFailure(prev.result)) =>
        /\ OneTextBlock(result)
        /\ Sendable => Len(result.calls) = 1
        /\ (Sendable /\ GotJson(outcome)) => Text = json_dumps(outcome.json)
        /\ cur.name \notin Dispatched => StartsWith(Text, "Error: Unknown tool: ")

(***************************************************************************)
(* C16: a failed tool call is not fatal.  After a CallTool that ended in a *)
(* Failure the server is still Serving, the next call is answered as it    *)
(* would be had the failure not happened, and the only step that leaves    *)
(* Serving is the end of the stream, with no request in flight.            *)
(***************************************************************************)
C16_FailureNotFatal ==
    /\ []((Answered /\ IsFailure(result)) => phase = "Serving")
    /\ []AnsweredAsFirst
    /\ [][phase' # phase => (phase = "Serving" /\ phase' = "Closed" /\ cur.done)]_vars

\* a search succeeded right after a call that failed for a missing file
C16_Witness ==
    /\ Answered
    /\ prev.set
    /\ prev.req.name = "classify"
    /\ Contains(prev.result.content[1].text, "No such file or directory")
    /\ cur.name = "search_foods"
    /\ Text = json_dumps(SearchBody)
    /\ phase = "Serving"

\* the search of the summary succeeded with a first food that has an fdcId
SearchFoundId ==
    /\ summary.set
    /\ summary.fn = "food_summary_basic"
    /\ summary.sessionOk
    /\ GotJson(outcome)
    /\ outcome.json.t = "dict"
    /\ ~PyIn("error", outcome.json)
    /\ get_value("foods", outcome.json).t = "list"
    /\ get_value("foods", outcome.json).c # <<>>
    /\ get_value("foods", outcome.json).c[1].t = "dict"
    /\ Truthy(get_value("fdcId", get_value("foods", outcome.json).c[1]))

(***************************************************************************)
(* C18: when the search succeeds with a non-empty foods list whose first   *)
(* entry has an fdcId and the detail lookup for that id succeeds,          *)
(* food_summary_basic returns a dictionary with food_name, fdc_id, the     *)
(* per-100g fields and nutrients, with source "USDA FoodData Central" and  *)
(* without the key "error".                                                *)
(***************************************************************************)
C18_SummaryBasic ==
    (SearchFoundId /\ GotJson(summary.detail)) =>
        /\ summary.value.t = "dict"
        /\ ~PyIn("error", summary.value)
        /\ get_value("source", summary.value) = JStr("USDA FoodData Central")
        /\ \A k \in {"label", "food_name", "fdc_id", "calories_per_100g", "protein_per_100g",
                     "carbs_per_100g", "fat_per_100g", "fiber_per_100g", "sodium_per_100g",
                     "nutrients", "summary"} : PyIn(k, summary.value)

\* the lifecycle's steps, in order
LifecycleSteps ==
    {<<"Uninitialized", "Ready">>, <<"Ready", "Serving">>, <<"Serving", "Closed">>}

\* a handler is run on the request in cur
HandlerRun == ~cur.done /\ cur'.done

(***************************************************************************)
(* C20: the lifecycle only moves forward, one step at a time, through      *)
(* Uninitialized, Ready, Serving, Closed; all four handlers are registered *)
(* before the stdio stream is opened; a request is dispatched only while   *)
(* Serving, to a registered handler; and once Closed nothing is in flight  *)
(* and nothing is dispatched.                                              *)
(***************************************************************************)
C20_Lifecycle ==
    /\ [](phase \in {"Uninitialized", "Ready", "Serving", "Closed"})
    /\ [][phase' # phase => <<phase, phase'>> \in LifecycleSteps]_vars
    /\ [](phase \in {"Ready", "Serving", "Closed"} => handlers = HandlerNames)
    /\ [][HandlerRun => /\ phase = "Serving"
                        /\ handlers = HandlerNames
                        /\ cur.op \in handlers]_vars
    /\ [](phase = "Closed" => cur = Idle)
    /\ [][phase = "Closed" => UNCHANGED vars]_vars

\* the server went through its whole lifecycle and dispatched requests on the way
C20_Witness ==
    /\ phase = "Closed"
    /\ handlers = HandlerNames
    /\ toolsSeen # {}
    /\ resourcesSeen # {}

\* the request in cur is an answered search_foods call that carried a query
SearchAnswered == Answered /\ cur.name = "search_foods" /\ HasKey(cur.args, "query")

(***************************************************************************)
(* C21: the search_foods handler issues exactly one upstream call, a GET   *)
(* of {backend}/api/search with no file, whose only query parameter is     *)
(* food_name, set to arguments["query"] as it was given; no other key of   *)
(* the arguments is forwarded.                                             *)
(***************************************************************************)
C21_SearchRequest ==
    SearchAnswered =>
        /\ Len(result.calls) = 1
        /\ result.calls[1].method = "GET"
        /\ result.calls[1].url = BACKEND_URL \o "/api/search"
        /\ result.calls[1].file = ""
        /\ result.calls[1].params = <<<<"food_name", cur.args["query"]>>>>
        /\ DOMAIN RequestArgs(result.calls[1]) = {"food_name"}
        /\ cur.args["query"].t = "str" =>
               RequestArgs(result.calls[1])["food_name"] = cur.args["query"].s

\* a search with paging keys beside the query was answered with a payload
C21_Witness ==
    /\ SearchAnswered
    /\ HasKey(cur.args, "pageSize")
    /\ HasKey(cur.args, "pageNumber")
    /\ cur.args["query"] = JStr("apple")
    /\ ~IsFailure(result)
    /\ result.calls # <<>>

\* the texts between the commas of s
RECURSIVE SplitComma(_)
SplitComma(s) ==
    IF \A i \in 1..Len(s) : Ch(s, i) # ","
    THEN <<s>>
    ELSE LET i == CHOOSE j \in 1..Len(s) :
                     Ch(s, j) = "," /\ \A h \in 1..(j - 1) : Ch(s, h) # ","
         IN <<SubSeq(s, 1, i - 1)>> \o SplitComma(SubSeq(s, i + 1, Len(s)))

\* the format the arguments in cur ask for
FormatAsked == IF HasKey(cur.args, "format") THEN cur.args["format"] ELSE JStr("full")

\* an answered get_food_details call that carried an id
DetailsAnswered == Answered /\ cur.name = "get_food_details" /\ HasKey(cur.args, "fdc_id")

\* an answered get_multiple_foods call that carried a list of ids
MultipleAnswered ==
    /\ Answered
    /\ cur.name = "get_multiple_foods"
    /\ HasKey(cur.args, "fdc_ids")
    /\ cur.args["fdc_ids"].t = "list"

(***************************************************************************)
(* C22: get_food_details and get_multiple_foods each issue a single GET    *)
(* whose format parameter is arguments["format"] when given and "full"     *)
(* when absent; get_multiple_foods sends the ids as one comma-separated    *)
(* string, in the order given, each id once for each time it was given.    *)
(***************************************************************************)
C22_DetailRequests ==
    /\ DetailsAnswered =>
          /\ Len(result.calls) = 1
          /\ result.calls[1].method = "GET"
          /\ result.calls[1].url = BACKEND_URL \o "/api/food/" \o PyStr(cur.args["fdc_id"])
          /\ result.calls[1].params = <<<<"format", FormatAsked>>>>
    /\ MultipleAnswered =>
          LET ids == cur.args["fdc_ids"].c
              sent == result.calls[1].params
          IN /\ Len(result.calls) = 1
             /\ result.calls[1].method = "GET"
             /\ result.calls[1].url = BACKEND_URL \o "/api/foods"
             /\ Len(sent) = 2
             /\ sent[1][1] = "fdcIds"
             /\ sent[1][2].t = "str"
             /\ sent[2] = <<"format", FormatAsked>>
             /\ IF ids = <<>> THEN sent[1][2].s = ""
                ELSE SplitComma(sent[1][2].s) = [i \in 1..Len(ids) |-> PyStr(ids[i])]

\* a batch call with a repeated id and a format of its own was answered
C22_Witness ==
    /\ MultipleAnswered
    /\ cur.args["fdc_ids"].c = <<JInt(12), JInt(34), JInt(12)>>
    /\ HasKey(cur.args, "format")
    /\ result.calls[1].params[1][2] = JStr("12,34,12")
    /\ ~IsFailure(result)

\* the members of CLASS_NAMES
ClassNameSet == {CLASS_NAMES[i] : i \in 1..Len(CLASS_NAMES)}

\* the image_path of the classify request is missing, empty or names no file
NoImage ==
    \/ "image_path" \notin DOMAIN RequestArgs(backend.req)
    \/ RequestArgs(backend.req)["image_path"] \notin ReadablePaths

(***************************************************************************)
(* C23: GET /api/classify answers 400 when image_path is missing or names  *)
(* no file, without calling load_classification_model; it answers 500 when *)
(* the model file is missing or preprocessing or prediction raises; when   *)
(* it succeeds, predicted_class is a member of CLASS_NAMES and success is  *)
(* true.  Every answer is one the handler or its parser made: 200, 400 or  *)
(* 500 with a JSON body, never the framework's answer to an exception.     *)
(***************************************************************************)
C23_ClassifyErrors ==
    AskedDirectly("/api/classify") =>
        /\ backend.resp.kind = "response" /\ backend.resp.isJson
        /\ backend.resp # FrameworkError(500, "Internal Server Error")
        /\ NoImage => (backend.resp.status = 400 /\ backend.loadCalls = 0)
        /\ (~NoImage /\ backend.env.classifier \in {"no_model_file", "predict_raises"})
              => (backend.resp.status = 500 /\ backend.loadCalls = 1)
        /\ (~NoImage /\ backend.env.classifier = "loaded")
              => /\ backend.resp.status = 200
                 /\ backend.resp.json.t = "dict"
                 /\ get_value("predicted_class", backend.resp.json).t = "str"
                 /\ get_value("predicted_class", backend.resp.json).s \in ClassNameSet
                 /\ get_value("success", backend.resp.json) = JBool(TRUE)

\* a classify request for a file that does not exist reached a backend
\* whose model file is missing
C23_Witness ==
    /\ AskedDirectly("/api/classify")
    /\ "image_path" \in DOMAIN RequestArgs(backend.req)
    /\ RequestArgs(backend.req)["image_path"] = "/does/not/exist.jpg"
    /\ backend.env.classifier = "no_model_file"
    /\ backend.resp.status = 400

(***************************************************************************)
(* C24: the classifier is loaded at most once per backend process: under   *)
(* any interleaving of classify requests the loading body of               *)
(* load_classification_model runs at most once, every request is handed    *)
(* the same _model object, and a load that failed leaves _model unset.     *)
(***************************************************************************)
C24_LoadedOnce ==
    /\ loader.loads <= 1
    /\ Cardinality(loader.returned) <= 1
    /\ loader.loads = 0 => loader._model = 0

\* a call of FoodHelper.search_foods or FoodHelper.classify_food has returned
HelperReturned == summary.set /\ summary.fn \in {"search_foods", "classify_food"}

\* the key under which the helper hands back its argument
ArgumentKey == IF summary.fn = "search_foods" THEN "query" ELSE "image_path"

(***************************************************************************)
(* C27: FoodHelper.search_foods and FoodHelper.classify_food always return *)
(* a value.  When the session cannot be started, or the server's tool call *)
(* ended in a Failure (an "Error: ..." block, isError not set), the value  *)
(* is a dictionary with the key "error" and the original query or          *)
(* image_path; the value is the parsed payload exactly when the block's    *)
(* text is valid JSON.                                                     *)
(***************************************************************************)
C27_HelpersNeverRaise ==
    HelperReturned =>
        /\ (~summary.sessionOk \/ IsFailure(result)) =>
              /\ summary.value.t = "dict"
              /\ PyIn("error", summary.value)
              /\ get_value(ArgumentKey, summary.value) = JStr(summary.label)
        /\ (summary.sessionOk /\ json_loads(Text).ok) =>
              (~IsFailure(result) /\ summary.value = json_loads(Text).v)
        /\ (summary.sessionOk /\ ~json_loads(Text).ok) => IsFailure(result)

\* classify_food returned after the server answered with an "Error: ..." block
C27_Witness ==
    /\ HelperReturned
    /\ summary.fn = "classify_food"
    /\ summary.sessionOk
    /\ StartsWith(Text, "Error: ")
    /\ get_value("image_path", summary.value) = JStr("/img/pizza.jpg")

\* a call of food_summary of tools/food_summary.py has returned
SummaryReturned == summary.set /\ summary.fn = "food_summary"

\* the text of the server's answer r is a JSON payload
Payload(r) == Len(r.content) = 1 /\ json_loads(r.content[1].text).ok

\* the server answered the search_foods call of the summary, and whether it
\* answered a get_food_details call
SearchResult == IF prev.set THEN prev.result ELSE result
DetailsCalled == prev.set /\ cur.name = "get_food_details"

(***************************************************************************)
(* C28: food_summary(label) of tools/food_summary.py always returns a      *)
(* dictionary holding at least label, summary and source; its source is    *)
(* "USDA FoodData Central" only when both the search_foods call and the    *)
(* get_food_details call produced JSON payloads; and an "Error: ..." reply *)
(* to either call ends in a dictionary with an "error" key.                *)
(***************************************************************************)
C28_FoodSummary ==
    SummaryReturned =>
        /\ summary.value.t = "dict"
        /\ \A k \in {"label", "summary", "source"} : PyIn(k, summary.value)
        /\ get_value("label", summary.value) = JStr(summary.label)
        /\ get_value("source", summary.value) = JStr("USDA FoodData Central") =>
              /\ summary.sessionOk
              /\ DetailsCalled
              /\ Payload(prev.result)
              /\ Payload(result)
              /\ ~PyIn("error", summary.value)
        /\ (summary.sessionOk /\ (IsFailure(SearchResult) \/ (DetailsCalled /\ IsFailure(result))))
              => PyIn("error", summary.value)

\* the search found a food, the detail lookup was answered "Error: ..."
C28_Witness ==
    /\ SummaryReturned
    /\ DetailsCalled
    /\ ~IsFailure(prev.result)
    /\ IsFailure(result)
    /\ get_value("error", summary.value) = JStr("Expecting value: line 1 column 1 (char 0)")
    /\ get_value("source", summary.value) = JStr("food_summary")

\* the URIs of a list of resources
ListedUris(l) == {l[i].uri : i \in 1..Len(l)}

\* a ReadResource request was answered
ReadAnswered == cur.op = "read_resource" /\ cur.done

(***************************************************************************)
(* C29: ListResources always returns the same two entries, food://search   *)
(* and food://details, and every URI it lists is readable: ReadResource on *)
(* a listed URI returns a string, not the unknown-resource error, whatever *)
(* was called before.                                                      *)
(***************************************************************************)
C29_ListedIsReadable ==
    /\ Cardinality(resourcesSeen) <= 1
    /\ \A l \in resourcesSeen :
          /\ Len(l) = 2
          /\ ListedUris(l) = {"food://search", "food://details"}
          /\ \A u \in ListedUris(l) :
                ~handle_read_resource(u).raised /\ handle_read_resource(u).value # ""
    /\ (ReadAnswered /\ cur.uri \in ListedUris(handle_list_resources))
          => (~resource.raised /\ resource.value # "")

\* a listed URI was read after a list and after a call that failed
C29_Witness ==
    /\ resourcesSeen # {}
    /\ failedSinceList
    /\ ReadAnswered
    /\ cur.uri = "food://details"
    /\ resource.value = "Use the get_food_details tool to get food information"

\* the handler of the answered call let an exception out
HandlerFailed == Dispatch(cur.name, cur.args, outcome).raised

(***************************************************************************)
(* C30: success and failure can be told apart by the text alone: the text  *)
(* of the block starts with "Error: " exactly when the call failed, and a  *)
(* Success text, the JSON serialization of the backend's body, never       *)
(* starts with "Error:", whatever JSON value the backend returned.         *)
(***************************************************************************)
C30_ErrorPrefix ==
    Answered =>
        /\ OneTextBlock(result)
        /\ StartsWith(Text, "Error: ") <=> HandlerFailed
        /\ ~HandlerFailed =>
              /\ json_loads(outcome.body).ok
              /\ Text = json_dumps(json_loads(outcome.body).v)
              /\ ~StartsWith(Text, "Error:")

\* the backend's body was a JSON string that reads like a failure
C30_Witness ==
    /\ Answered
    /\ ~HandlerFailed
    /\ outcome.json.t = "str"
    /\ StartsWith(outcome.json.s, "Error: ")
    /\ StartsWith(Text, "\"Error: ")

\* the places of the assistant messages in messages
Assistants == {i \in 1..Len(chat.messages) : chat.messages[i].role = "assistant"}

\* the last response appended
LastAssistant == CHOOSE i \in Assistants : \A j \in Assistants : j <= i

\* how many tool messages stand right after the assistant message at i
RECURSIVE ToolRun(_, _)
ToolRun(i, n) ==
    IF i + n + 1 <= Len(chat.messages) /\ chat.messages[i + n + 1].role = "tool"
    THEN ToolRun(i, n + 1)
    ELSE n

\* every tool call of the assistant message at i has its tool message
AllAnswered(i) == ToolRun(i, 0) = Len(chat.messages[i].tool_calls)

\* every response so far asked for tools, and there were max_iterations
AllRequestTools ==
    /\ Cardinality(Assistants) = max_iterations
    /\ \A i \in Assistants : chat.messages[i].tool_calls # <<>>

\* the loop ended on a response without tool calls
EndedOnContent ==
    /\ ChatOver /\ Assistants # {}
    /\ LastAssistant = Len(chat.messages)
    /\ chat.messages[LastAssistant].tool_calls = <<>>

\* the loop ended on an exception: of the request, or of handling a tool call
EndedOnException ==
    /\ ChatOver /\ chat.env = "ok"
    /\ \/ Cardinality(Assistants) < chat.requests
       \/ Assistants # {} /\ ~AllAnswered(LastAssistant)

\* C25 as stated: the LLM tool loops make at most 10 chat-completion
\* requests, return the model's content at the first response that carries
\* no tool calls, and return "Maximum iterations reached. Analysis may be
\* incomplete." when all 10 responses request tools
C25_LoopResult ==
    /\ chat.requests <= 10
    /\ EndedOnContent =>
          /\ chat.pc = "returned"
          /\ JStr(chat.value) = chat.messages[LastAssistant].content
    /\ ChatOver /\ AllRequestTools =>
          /\ chat.pc = "returned"
          /\ chat.value = "Maximum iterations reached. Analysis may be incomplete."

\* what a loop has come to, in every state
LoopResult ==
    /\ chat.requests = chat.iteration
    /\ chat.requests <= max_iterations
    /\ Cardinality(Assistants) <= chat.requests
    /\ \A i \in Assistants :
          i # LastAssistant => chat.messages[i].tool_calls # <<>> /\ AllAnswered(i)
    /\ EndedOnContent =>
          /\ chat.pc = "returned"
          /\ chat.value = IF Truthy(chat.messages[LastAssistant].content)
                          THEN chat.messages[LastAssistant].content.s
                          ELSE "No response generated"
    /\ ChatOver /\ AllRequestTools /\ AllAnswered(LastAssistant) =>
          /\ chat.pc = "returned"
          /\ chat.requests = max_iterations
          /\ chat.value = "Maximum iterations reached. Analysis may be incomplete."
    /\ EndedOnException =>
          IF chat.fn = "food_summary_with_openai"
          THEN chat.pc = "returned"
               /\ StartsWith(chat.value, "Error during OpenAI analysis: ")
          ELSE chat.pc = "raised"
    /\ ChatOver /\ chat.env = "ok" =>
          EndedOnContent \/ EndedOnException
          \/ (AllRequestTools /\ AllAnswered(LastAssistant))
    /\ ChatOver /\ chat.env # "ok" => chat.requests = 0
    /\ chat.pc \in {"enter", "loop", "tools", "returned", "raised"}
    /\ chat.pc = "tools" => chat.next \in 1..Len(chat.message.tool_calls)

\* what is left of a loop, greatest first: the lines before the while loop,
\* the rounds of the while loop, the tool calls of the for loop
Stage(c) ==
    CASE c.pc = "enter" -> 2
      [] c.pc \in {"loop", "tools"} -> 1
      [] OTHER -> 0
Rounds(c) == max_iterations - c.iteration
Calls(c) == IF c.pc = "tools" THEN Len(c.message.tool_calls) - c.next + 1 ELSE 0

\* a step of a loop that is not over takes it nearer to its end: what is
\* left gets less, in the order of the dictionary, and never below nothing
LoopAdvances ==
    /\ ~ChatOver
    /\ Rounds(chat') >= 0 /\ Calls(chat') >= 0
    /\ \/ Stage(chat') < Stage(chat)
       \/ Stage(chat') = Stage(chat) /\ Rounds(chat') < Rounds(chat)
       \/ /\ Stage(chat') = Stage(chat) /\ Rounds(chat') = Rounds(chat)
          /\ Calls(chat') < Calls(chat)

\* C25, amended: the LLM tool loops terminate after at most 10
\* chat-completion requests; at the first response without tool calls they
\* return the model's content, or "No response generated" when that content
\* is None or empty; they return "Maximum iterations reached. Analysis may
\* be incomplete." when all 10 responses request tools and every tool call
\* was handled; an exception of a request or of handling a tool call ends
\* the loop at once, food_summary_with_openai returning "Error during OpenAI
\* analysis: <message>" and chat_with_openai letting it out
C25_LoopsTerminate == [](LoopResult) /\ [][LoopAdvances]_vars

\* all ten responses asked for tools and the loop gave up
C25_Witness ==
    /\ chat.pc = "returned" /\ chat.requests = max_iterations
    /\ AllRequestTools /\ AllAnswered(LastAssistant)
    /\ chat.value = "Maximum iterations reached. Analysis may be incomplete."

\* the tool message at place k after the assistant message at i answers the
\* k-th tool call of that message
AnswersCall(i, k) ==
    /\ i + k <= Len(chat.messages)
    /\ chat.messages[i + k].role = "tool"
    /\ chat.messages[i + k].tool_call_id = chat.messages[i].tool_calls[k].id

\* how many tool messages carry the id
AnswersTo(id) ==
    Cardinality({j \in 1..Len(chat.messages) :
                    chat.messages[j].role = "tool" /\ chat.messages[j].tool_call_id = id})

\* neither loop routes the name
UnknownFunction(tool_call) ==
    IF chat.fn = "food_summary_with_openai"
    THEN ~HelperRoute(tool_call.name).known
    ELSE ~CliRoute(tool_call.name).known

\* json.dumps({"error": "Unknown function: <name>"})
UnknownFunctionText(tool_call) ==
    "{\"error\": \"Unknown function: " \o tool_call.name \o "\"}"

\* C26 as stated: once the for loop is through, every tool call of every
\* assistant message has exactly one tool message with its id, after that
\* message and in the order of the calls, and an unknown function name has
\* its error object
C26_EveryCallAnswered ==
    chat.pc # "tools" =>
        \A i \in Assistants : \A k \in 1..Len(chat.messages[i].tool_calls) :
            /\ AnswersCall(i, k)
            /\ AnswersTo(chat.messages[i].tool_calls[k].id) = 1
            /\ UnknownFunction(chat.messages[i].tool_calls[k]) =>
                  chat.messages[i + k].content
                     = JStr(UnknownFunctionText(chat.messages[i].tool_calls[k]))

\* handling the tool call raises, in the loop that chat is
HandlingRaises(tool_call) ==
    IF chat.fn = "food_summary_with_openai"
    THEN _handle_openai_tool_call(tool_call, chat.sessionOk, chat.o).raised
    ELSE handle_tool_call(tool_call, chat.sessionOk, chat.o).raised

\* the tool calls of the assistant message at i that have their tool message
\* are its first ones, each answered once, in order, right after it
AnsweredInOrder(i) ==
    /\ ToolRun(i, 0) <= Len(chat.messages[i].tool_calls)
    /\ \A k \in 1..Len(chat.messages[i].tool_calls) :
          IF k <= ToolRun(i, 0)
          THEN /\ AnswersCall(i, k)
               /\ AnswersTo(chat.messages[i].tool_calls[k].id) = 1
               /\ UnknownFunction(chat.messages[i].tool_calls[k]) =>
                     chat.messages[i + k].content
                        = JStr(UnknownFunctionText(chat.messages[i].tool_calls[k]))
          ELSE AnswersTo(chat.messages[i].tool_calls[k].id) = 0

\* C26, amended: every tool call of an assistant message whose handling does
\* not raise is answered by exactly one tool message carrying the same
\* tool_call_id, appended after that assistant message, in the order of the
\* tool calls, and every chat-completion request is sent with all tool calls
\* before it answered; an unknown function name whose arguments are JSON
\* still gets its tool message (an error object); when handling a tool call
\* raises, that call and the calls after it get no tool message and no
\* further request is sent
C26_CallsAnswered ==
    /\ \A i \in Assistants :
          /\ AnsweredInOrder(i)
          /\ i <= chat.sent => AllAnswered(i) /\ i + ToolRun(i, 0) <= chat.sent
    /\ chat.pc = "tools" =>
          /\ ToolRun(LastAssistant, 0) = chat.next - 1
          /\ LastAssistant + ToolRun(LastAssistant, 0) = Len(chat.messages)
    /\ chat.pc = "loop" /\ Assistants # {} => AllAnswered(LastAssistant)
    /\ Assistants # {} /\ ~AllAnswered(LastAssistant) /\ chat.pc # "tools" =>
          /\ ChatOver
          /\ HandlingRaises(chat.messages[LastAssistant].tool_calls[
                               ToolRun(LastAssistant, 0) + 1])
          /\ UnknownFunction(chat.messages[LastAssistant].tool_calls[
                               ToolRun(LastAssistant, 0) + 1])
                => ~json_loads(chat.messages[LastAssistant].tool_calls[
                                  ToolRun(LastAssistant, 0) + 1].arguments).ok

\* a second request went out after a response with two tool calls, one of
\* them for a function the loop does not know, and both have their answers
C26_Witness ==
    /\ chat.requests >= 2
    /\ \E i \in Assistants :
          /\ i < chat.sent
          /\ Len(chat.messages[i].tool_calls) = 2
          /\ \E k \in 1..2 :
                /\ UnknownFunction(chat.messages[i].tool_calls[k])
                /\ chat.messages[i + k].content
                      = JStr(UnknownFunctionText(chat.messages[i].tool_calls[k]))
                /\ chat.messages[i + k].tool_call_id = chat.messages[i].tool_calls[k].id

====
